---------------------------- MODULE Spec2Model ----------------------------
(***************************************************************************)
(* Tiered historical-metrics resolution engine                             *)
(* (src/historical_analyzer.py, EnhancedHistoricalAnalyzer) together with  *)
(* the /force-refresh handler of src/app.py.                               *)
(*                                                                         *)
(* Numbers.  Python floats are modelled by exact rationals [n, d] (d > 0,  *)
(* lowest terms).  Prices are positive integers.  Wall-clock time is an    *)
(* integer number of seconds.  A formatted value is the string the         *)
(* f-string produces, built digit by digit.                                *)
(***************************************************************************)
EXTENDS Integers, Sequences, FiniteSets, TLC

VARIABLES
    now,            \* datetime.now(), seconds
    csv_exists,     \* csv_data_path.exists()
    csv,            \* data/historical_clean.csv as pandas reads it
    cache,          \* data/cache/<asset>.json: asset -> file
    yf,             \* yfinance: asset -> the outcomes a request for its symbol can have
    pc,             \* resolver call p: position in calculate_all_metrics
    idx,            \* resolver call p: index into `assets` of the loop
    results,        \* resolver call p: the `results` dict
    hits,           \* resolver call p: csv_hits, cache_hits, live_fetches, fallbacks
    period_i,       \* resolver call p: index into the period list of _fetch_live_data
    hist,           \* resolver call p: the `hist` local of _fetch_live_data
    live_data,      \* resolver call p: the `live_data` local awaiting _update_cache
    raised,         \* resolver call p: an exception escaped calculate_all_metrics
    portfolios,     \* resolver call p: the argument of the call
    calls,          \* number of calculate_all_metrics calls started
    tier,           \* resolver call p: per asset, the branch that assigned results[asset]
    io,             \* resolver call p: the external operations of the current iteration
    refresh,        \* response of the last POST /force-refresh
    series,         \* calculator runs: the price series handed to the calculator
    out             \* calculator runs: the records computed from `series`, in order

vars == <<now, csv_exists, csv, cache, yf, pc, idx, results, hits, period_i, hist,
          live_data, raised, portfolios, calls, tier, io, refresh, series, out>>

-----------------------------------------------------------------------------
(* Bounds of the model *)

\* calls of calculate_all_metrics in one behaviour
MaxCalls == 2

\* rows of a short history (10 to 29) and of a long one (more than 50)
ShortLen == 15

LongLen == 60

\* rows of a history long enough for every risk metric (at least 100)
SharpeLen == 100

\* rows of a history longer than the longest moving-average window (200)
SmaLen == 201

\* rows of a history that covers the one-year horizon and no longer one (252 + 1)
YearLen == 253

\* rows of a history that covers the five-year horizon (more than 252 * 5)
DeepLen == 1261

\* computations of one series in one behaviour of the calculator
MaxRuns == 2

\* minutes that pass while two requests are served at once
MaxTicks == 1

\* points of a history too short for every horizon but the extrapolation
TieLen == 11

-----------------------------------------------------------------------------
(* Exact rational arithmetic standing for float arithmetic *)

\* F at the value of x: x is evaluated once, as an assignment to a local does
\* (an operator argument or LET name is evaluated anew at each of its uses)
With(x, F(_)) == CHOOSE y \in {F(v) : v \in {x}} : TRUE

Abs(x) == IF x < 0 THEN -x ELSE x

Min2(a, b) == IF a <= b THEN a ELSE b

Max2(a, b) == IF a >= b THEN a ELSE b

\* gcd, rat, radd, rmul, rmin and rmax are functions: an argument is evaluated
\* once, where it is applied
gcd[a \in Nat, b \in Nat] == IF b = 0 THEN a ELSE gcd[b, a % b]

Gcd(a, b) == gcd[a, b]

rat[n \in Int, d \in Int] ==
    LET s == IF d < 0 THEN -1 ELSE 1
        g == gcd[Abs(n), Abs(d)]
    IN  [n |-> (s * n) \div g, d |-> (s * d) \div g]

Rat(n, d) == rat[n, d]

Rationals == [n : Int, d : Nat]

RInt(k) == [n |-> k, d |-> 1]

\* sums are formed over the least common denominator
radd[x \in Rationals, y \in Rationals] ==
    LET g == gcd[x.d, y.d]
    IN  rat[x.n * (y.d \div g) + y.n * (x.d \div g), (x.d \div g) * y.d]

RAdd(x, y) == radd[x, y]

RSub(x, y) == RAdd(x, [n |-> -y.n, d |-> y.d])

rmul[x \in Rationals, y \in Rationals] ==
    LET a == rat[x.n, y.d]
        b == rat[y.n, x.d]
    IN  rat[a.n * b.n, a.d * b.d]

RMul(x, y) == rmul[x, y]

RDiv(x, y) == RMul(x, Rat(y.d, y.n))

RLess(x, y) == x.n * y.d < y.n * x.d

rmin[x \in Rationals, y \in Rationals] == IF RLess(y, x) THEN y ELSE x

RMin(x, y) == rmin[x, y]

rmax[x \in Rationals, y \in Rationals] == IF RLess(x, y) THEN y ELSE x

RMax(x, y) == rmax[x, y]

-----------------------------------------------------------------------------
(* String formatting: f"{x:.1f}" and f"{x:.2f}" *)

\* |n|/d rounded to the nearest integer, ties to even
RoundHalfEven(n, d) ==
    LET q == n \div d
        r == n % d
    IN  IF 2 * r < d THEN q
        ELSE IF 2 * r > d THEN q + 1
        ELSE IF q % 2 = 0 THEN q ELSE q + 1

\* f"{x:.1f}": sign kept for a negative value that rounds to zero ("-0.0")
Fmt1(x) ==
    With(x, LAMBDA y :
        With(RoundHalfEven(Abs(y.n) * 10, y.d), LAMBDA m :
            (IF y.n < 0 THEN "-" ELSE "") \o ToString(m \div 10) \o "."
            \o ToString(m % 10)))

\* f"{x:.2f}"
Fmt2(x) ==
    With(x, LAMBDA y :
        With(RoundHalfEven(Abs(y.n) * 100, y.d), LAMBDA m :
            (IF y.n < 0 THEN "-" ELSE "") \o ToString(m \div 100) \o "."
            \o ToString((m % 100) \div 10) \o ToString(m % 10)))

\* f"{x * 100:.1f}%"
FmtPct(x) == Fmt1(RMul(x, RInt(100))) \o "%"

-----------------------------------------------------------------------------
(* np.sqrt, to the precision the formats keep *)

\* floor(sqrt(k)) for a natural number k < 46656^2: the leading base-216 digit,
\* then the root itself (r * r <= k is decided as r <= k \div r)
ISqrt(k) ==
    LET hi == CHOOSE a \in 0..215 :
                  /\ (a = 0 \/ 216 * a <= k \div (216 * a))
                  /\ 216 * (a + 1) > k \div (216 * (a + 1))
    IN  CHOOSE r \in (216 * hi)..(216 * hi + 215) :
            /\ (r = 0 \/ r <= k \div r)
            /\ r + 1 > k \div (r + 1)

\* scale * sqrt(x) rounded to the nearest integer, for a rational x >= 0:
\* the largest t with (2t - 1)^2 <= (2 * scale)^2 * x.  The product
\* x.n * (2 * scale)^2 is divided by x.d in two steps so that it is never formed.
RoundSqrt(x, scale) ==
    LET T  == 2 * scale
        q1 == (x.n * T) \div x.d
        r1 == (x.n * T) % x.d
    IN  With(q1 * T + (r1 * T) \div x.d, LAMBDA q : (ISqrt(q) + 1) \div 2)

-----------------------------------------------------------------------------
(* IEEE-754 binary64 arithmetic, for the places where the rounding of each   *)
(* operation shows in the result.  A natural number is a sequence of limbs   *)
(* of LimbBits bits, least significant first, without leading zero limbs.    *)
(* A double is [neg, m, e] and stands for (-1)^neg * m * 2^e, with m of      *)
(* exactly Precision bits, or m = <<>> for zero.  Every operation rounds its *)
(* exact result to the nearest double, ties to even.  The operations are     *)
(* functions: an argument is evaluated once, where it is applied.            *)

\* bits of the significand of a binary64
Precision == 53

\* bits of a limb: a product of two limbs plus a limb is below 2^31
LimbBits == 15

Limb == 2^LimbBits

Limbs == Seq(0..(Limb - 1))

Doubles == [neg : BOOLEAN, m : Limbs, e : Int]

Zeros(k) == [i \in 1..k |-> 0]

limbsof[n \in Nat] == IF n = 0 THEN <<>> ELSE <<n % Limb>> \o limbsof[n \div Limb]

\* a without its leading zero limbs
trim[a \in Limbs] ==
    IF a = <<>> \/ a[Len(a)] # 0 THEN a ELSE trim[SubSeq(a, 1, Len(a) - 1)]

\* the number of bits of n
bitlen[n \in Nat] == IF n = 0 THEN 0 ELSE 1 + bitlen[n \div 2]

\* the number of bits of a
Width(a) == IF a = <<>> THEN 0 ELSE LimbBits * (Len(a) - 1) + bitlen[a[Len(a)]]

\* a * k + c for k and c below Limb
mulsmall[a \in Limbs, k \in Nat, c \in Nat] ==
    IF a = <<>> THEN limbsof[c]
    ELSE <<(a[1] * k + c) % Limb>> \o mulsmall[Tail(a), k, (a[1] * k + c) \div Limb]

\* a + b + c for a carry c
addlimbs[a \in Limbs, b \in Limbs, c \in Nat] ==
    IF a = <<>> THEN mulsmall[b, 1, c]
    ELSE IF b = <<>> THEN mulsmall[a, 1, c]
    ELSE <<(a[1] + b[1] + c) % Limb>>
         \o addlimbs[Tail(a), Tail(b), (a[1] + b[1] + c) \div Limb]

\* a - b - c for a >= b + c and a borrow c, in Len(a) limbs
sublimbs[a \in Limbs, b \in Limbs, c \in Nat] ==
    IF a = <<>> THEN <<>>
    ELSE <<(a[1] + Limb - (IF b = <<>> THEN 0 ELSE b[1]) - c) % Limb>>
         \o sublimbs[Tail(a), IF b = <<>> THEN <<>> ELSE Tail(b),
                     IF a[1] - (IF b = <<>> THEN 0 ELSE b[1]) - c < 0 THEN 1 ELSE 0]

\* a < b
lesslimbs[a \in Limbs, b \in Limbs] ==
    IF Len(a) # Len(b) THEN Len(a) < Len(b)
    ELSE IF a = <<>> THEN FALSE
    ELSE IF a[Len(a)] # b[Len(b)] THEN a[Len(a)] < b[Len(b)]
    ELSE lesslimbs[trim[SubSeq(a, 1, Len(a) - 1)], trim[SubSeq(b, 1, Len(b) - 1)]]

\* (r * Limb^Len(a) + a) divided by k, for r < k <= Limb: the remainder, then
\* the limbs of the quotient
divsmall[a \in Limbs, k \in Nat, r \in Nat] ==
    IF a = <<>> THEN <<r>>
    ELSE Append(divsmall[SubSeq(a, 1, Len(a) - 1), k, (r * Limb + a[Len(a)]) % k],
                (r * Limb + a[Len(a)]) \div k)

\* a * b
mullimbs[a \in Limbs, b \in Limbs] ==
    IF b = <<>> THEN <<>>
    ELSE addlimbs[mulsmall[a, b[1], 0], <<0>> \o mullimbs[a, Tail(b)], 0]

\* a * 2^s
shl[a \in Limbs, s \in Nat] ==
    trim[Zeros(s \div LimbBits) \o mulsmall[a, 2^(s % LimbBits), 0]]

\* a divided by 2^s: whether bits were lost, then the limbs of the quotient
shr[a \in Limbs, s \in Nat] ==
    With(divsmall[SubSeq(a, s \div LimbBits + 1, Len(a)), 2^(s % LimbBits), 0], LAMBDA rq :
        <<rq[1] # 0 \/ \E i \in 1..Min2(s \div LimbBits, Len(a)) : a[i] # 0>>
        \o trim[Tail(rq)])

\* the integer nearest to (a + f) / 2^s, ties to even, where 0 <= f < 1 and
\* f > 0 exactly when `inexact`, for s >= 1
nearest[a \in Limbs, s \in Nat, inexact \in BOOLEAN] ==
    With(shr[a, s - 1], LAMBDA lq :
        With(divsmall[Tail(lq), 2, 0], LAMBDA hq :
            IF hq[1] = 1 /\ (lq[1] \/ inexact \/ (Len(hq) > 1 /\ hq[2] % 2 = 1))
            THEN addlimbs[trim[Tail(hq)], <<>>, 1]
            ELSE trim[Tail(hq)]))

\* the double nearest to (-1)^neg * (a + f) * 2^e, where 0 <= f < 1 and f > 0
\* exactly when `inexact`; an inexact a has more than Precision + 1 bits
round[neg \in BOOLEAN, a \in Limbs, e \in Int, inexact \in BOOLEAN] ==
    With(Width(a), LAMBDA w :
        IF w = 0 THEN [neg |-> neg, m |-> <<>>, e |-> 0]
        ELSE IF w <= Precision
        THEN [neg |-> neg, m |-> shl[a, Precision - w], e |-> e - (Precision - w)]
        ELSE With(nearest[a, w - Precision, inexact], LAMBDA m :
                 IF Width(m) > Precision
                 THEN [neg |-> neg, m |-> Tail(shr[m, 1]), e |-> e + w - Precision + 1]
                 ELSE [neg |-> neg, m |-> m, e |-> e + w - Precision]))

\* float(n)
DInt(n) == round[n < 0, limbsof[Abs(n)], 0, FALSE]

\* x / k for an int k, 0 < k < Limb
ddivint[x \in Doubles, k \in Nat] ==
    With(divsmall[Zeros(2) \o x.m, k, 0], LAMBDA rq :
        round[x.neg, trim[Tail(rq)], x.e - 2 * LimbBits, rq[1] # 0])

\* x * k for an int k, 0 <= k < Limb
dmulint[x \in Doubles, k \in Nat] == round[x.neg, trim[mulsmall[x.m, k, 0]], x.e, FALSE]

\* x * y
dmul[x \in Doubles, y \in Doubles] ==
    round[x.neg # y.neg, trim[mullimbs[x.m, y.m]], x.e + y.e, FALSE]

\* x - 1 for x > 0 below 2^Precision
dsubone[x \in Doubles] ==
    With(shl[<<1>>, -x.e], LAMBDA one :
        IF lesslimbs[x.m, one]
        THEN round[TRUE, trim[sublimbs[one, x.m, 0]], x.e, FALSE]
        ELSE round[FALSE, trim[sublimbs[x.m, one, 0]], x.e, FALSE])

\* x < y
dless[x \in Doubles, y \in Doubles] ==
    IF x.m = <<>> THEN y.m # <<>> /\ ~y.neg
    ELSE IF y.m = <<>> THEN x.neg
    ELSE IF x.neg # y.neg THEN x.neg
    ELSE IF x.neg THEN dless[[y EXCEPT !.neg = FALSE], [x EXCEPT !.neg = FALSE]]
    ELSE IF x.e # y.e THEN x.e < y.e
    ELSE lesslimbs[x.m, y.m]

\* min(x, y) and max(x, y) of the interpreter: the first argument unless the
\* second is smaller, or larger
dmin[x \in Doubles, y \in Doubles] == IF dless[y, x] THEN y ELSE x

dmax[x \in Doubles, y \in Doubles] == IF dless[x, y] THEN y ELSE x

\* |x| * 10 rounded to the nearest integer, ties to even, for 2^-Precision <=
\* |x| < 2^24 or x = 0
dtenths[x \in Doubles] ==
    IF x.m = <<>> THEN 0
    ELSE With(nearest[mulsmall[x.m, 10, 0], -x.e, FALSE], LAMBDA t :
             IF t = <<>> THEN 0
             ELSE IF Len(t) = 1 THEN t[1] ELSE t[1] + Limb * t[2])

\* f"{x:.1f}"
DFmt1(x) ==
    With(dtenths[x], LAMBDA t :
        (IF x.neg THEN "-" ELSE "") \o ToString(t \div 10) \o "." \o ToString(t % 10))

-----------------------------------------------------------------------------
(* pandas Series operations on a price series (a sequence of prices) *)

\* prices.iloc[k]
Iloc(prices, k) == IF k < 0 THEN prices[Len(prices) + 1 + k] ELSE prices[k + 1]

\* sum over S of w[v]
RECURSIVE SumSetR(_, _)
SumSetR(w, S) ==
    IF S = {} THEN RInt(0)
    ELSE With(CHOOSE u \in S : TRUE, LAMBDA v :
             With(S \ {v}, LAMBDA rest : RAdd(w[v], SumSetR(w, rest))))

\* Series.sum() of a sequence of rationals: each distinct value times its count
SumR(f) ==
    With(f, LAMBDA g :
        With({g[i] : i \in 1..Len(g)}, LAMBDA vals :
            With([v \in vals |->
                     RMul(v, RInt(Cardinality({i \in 1..Len(g) : g[i] = v})))],
                 LAMBDA w : SumSetR(w, vals))))

\* prices.pct_change().dropna()
pct_change(prices) ==
    [i \in 1..(Len(prices) - 1) |->
        RSub(Rat(prices[i + 1], prices[i]), RInt(1))]

\* Series.mean()
Mean(f) == With(f, LAMBDA g : RDiv(SumR(g), RInt(Len(g))))

\* Series.var(): sample variance (ddof = 1)
Variance(f) ==
    With(f, LAMBDA g :
        With(Mean(g), LAMBDA mu :
            LET m  == Len(g)
                sq == [i \in 1..m |-> With(RSub(g[i], mu), LAMBDA dev : RMul(dev, dev))]
            IN  RDiv(SumR(sq), RInt(m - 1))))

\* the k-th smallest value of f, k counted from 0
KthSmallest(f, k) ==
    With(f, LAMBDA g :
        CHOOSE v \in {g[i] : i \in 1..Len(g)} :
            /\ Cardinality({i \in 1..Len(g) : RLess(g[i], v)}) <= k
            /\ Cardinality({i \in 1..Len(g) : ~RLess(v, g[i])}) > k)

\* Series.quantile(q), linear interpolation, q = qn / qd
Quantile(f, qn, qd) ==
    With(f, LAMBDA g :
        LET m    == Len(g)
            pos  == Rat((m - 1) * qn, qd)
            lo   == pos.n \div pos.d
            frac == RSub(pos, RInt(lo))
        IN  With(KthSmallest(g, lo), LAMBDA a :
                With(IF lo + 1 <= m - 1 THEN KthSmallest(g, lo + 1) ELSE a, LAMBDA b :
                    RAdd(a, RMul(frac, RSub(b, a))))))

\* prices.expanding().max() at position i: the largest price seen up to i
ExpandingMax(prices, i) ==
    With({prices[k] : k \in 1..i}, LAMBDA seen :
        CHOOSE m \in seen : \A y \in seen : y <= m)

\* ((prices - rolling_max) / rolling_max).min()
MinDrawdown(prices) ==
    With({With(ExpandingMax(prices, i), LAMBDA rolling_max :
               Rat(prices[i] - rolling_max, rolling_max)) : i \in 1..Len(prices)},
         LAMBDA dd : CHOOSE x \in dd : \A y \in dd : ~RLess(y, x))

\* x ** (1 / k) for k in {5, 10}: exact on perfect powers of the bases below
RootBases == {Rat(1, 2), RInt(1), RInt(2), RInt(4)}

RECURSIVE RPow(_, _)
RPow(x, k) == IF k = 0 THEN RInt(1) ELSE With(RPow(x, k - 1), LAMBDA y : RMul(x, y))

NthRoot(x, k) == CHOOSE b \in RootBases : RPow(b, k) = x

-----------------------------------------------------------------------------
(* Python values: None, a dict, a non-dict object, and a propagating       *)
(* exception as the outcome of a call                                      *)

None == [k |-> "None"]

Dict(r) == [k |-> "dict", v |-> r]

List == [k |-> "list"]

Bool(b) == [k |-> "bool", v |-> b]

Raised == [k |-> "raise"]

\* truth value of `if x:` for the values above (dicts and lists here are non-empty)
Truthy(x) == x.k \in {"dict", "list"}

-----------------------------------------------------------------------------
(* The calculator: EnhancedHistoricalAnalyzer._safe_*_calc                 *)
(*                                                                         *)
(* A pandas Series is [dtype, v, junk_last]: dtype "float64" holds the     *)
(* prices v; dtype "object" is a column with text cells, whose arithmetic  *)
(* raises TypeError/DataError, and junk_last says that float() of its last *)
(* cell raises ValueError.  index_first and index_last are str() of the    *)
(* first and last index labels.                                            *)

NA == "N/A"

Numeric(prices) == prices.dtype = "float64"

\* an extrapolation that reports its estimate as it is, without bounds
safe_return_calc_unbounded(prices, days, fallback) ==
    LET n == Len(prices.v)
    IN  IF n < Max2(days + 1, 30) /\ n >= 10 /\ Numeric(prices)
        THEN LET total_return == RSub(Rat(Iloc(prices.v, -1), Iloc(prices.v, 0)), RInt(1))
                 daily_return == RDiv(total_return, RInt(n - 1))
                 dampening_factor == IF days > 30 THEN RMin(RInt(1), Rat(30, days))
                                     ELSE RInt(1)
             IN  FmtPct(RMul(RMul(daily_return, RInt(days)), dampening_factor))
        ELSE fallback

\* a calculator that reports a horizon it cannot cover as missing
safe_return_calc_missing(prices, days, fallback) ==
    IF Len(prices.v) < days + 1 THEN NA ELSE fallback

\* a calculator that extrapolates only from 20 points on
safe_return_calc_late(prices, days, fallback) ==
    LET n == Len(prices.v)
    IN  IF n < Max2(days + 1, 30)
        THEN IF n >= 20 /\ Numeric(prices)
             THEN LET total_return == RSub(Rat(Iloc(prices.v, -1), Iloc(prices.v, 0)), RInt(1))
                      daily_return == RDiv(total_return, RInt(n - 1))
                      dampening_factor == IF days > 30 THEN RMin(RInt(1), Rat(30, days))
                                          ELSE RInt(1)
                      estimated_return == RMul(RMul(daily_return, RInt(days)),
                                               dampening_factor)
                  IN  FmtPct(RMax(Rat(-80, 100), RMin(RInt(2), estimated_return)))
             ELSE fallback
        ELSE IF ~Numeric(prices) THEN fallback
        ELSE IF days <= 252
             THEN FmtPct(RSub(Rat(Iloc(prices.v, -1), Iloc(prices.v, -days - 1)), RInt(1)))
             ELSE FmtPct(RSub(NthRoot(Rat(Iloc(prices.v, -1), Iloc(prices.v, -days - 1)),
                                      days \div 252), RInt(1)))

safe_return_calc(prices, days, fallback) ==
    LET n == Len(prices.v)
    IN  IF n < Max2(days + 1, 30)
        THEN IF n >= 10
             THEN IF ~Numeric(prices) THEN fallback     \* except Exception
                  ELSE
                  LET total_return   == RSub(Rat(Iloc(prices.v, -1), Iloc(prices.v, 0)), RInt(1))
                      available_days == n - 1
                  IN  IF available_days > 0
                      THEN LET daily_return     == RDiv(total_return, RInt(available_days))
                               dampening_factor == IF days > 30
                                                   THEN RMin(RInt(1), Rat(30, days))
                                                   ELSE RInt(1)
                               estimated_return == RMul(RMul(daily_return, RInt(days)),
                                                        dampening_factor)
                               bounded          == RMax(Rat(-80, 100),
                                                        RMin(RInt(2), estimated_return))
                           IN  FmtPct(bounded)
                      ELSE fallback
             ELSE fallback
        ELSE IF ~Numeric(prices) THEN fallback          \* except Exception
        ELSE
        LET start_price == Iloc(prices.v, -days - 1)
            end_price   == Iloc(prices.v, -1)
        IN  IF days <= 252
            THEN LET period_return == RSub(Rat(end_price, start_price), RInt(1))
                 IN  FmtPct(period_return)
            ELSE LET years             == days \div 252
                     total_return      == RSub(Rat(end_price, start_price), RInt(1))
                     annualized_return == RSub(NthRoot(RAdd(RInt(1), total_return), years),
                                               RInt(1))
                 IN  FmtPct(annualized_return)

\* the extrapolation without the dampening factor
extrapolated_return_undamped(prices, days) ==
    With(dsubone[ddivint[DInt(Iloc(prices.v, -1)), Iloc(prices.v, 0)]], LAMBDA total_return :
    With(ddivint[total_return, Len(prices.v) - 1], LAMBDA daily_return :
    With(dmulint[daily_return, days], LAMBDA estimated_return :
    With(dmax[[ddivint[DInt(4), 5] EXCEPT !.neg = TRUE], dmin[DInt(2), estimated_return]],
         LAMBDA bounded : DFmt1(dmulint[bounded, 100]) \o "%"))))

\* The extrapolation of _safe_return_calc as the interpreter computes it, each
\* operation rounded to a binary64, for a numeric series of 10 or more
\* points.  safe_return_calc above computes the same branch in exact
\* arithmetic; the two differ where the exact estimate lies half way between
\* two displayed values.  In order: total_return, daily_return,
\* dampening_factor, estimated_return, its bounds -0.80 and 2.0, and
\* f"{estimated_return * 100:.1f}%"
extrapolated_return(prices, days) ==
    With(dsubone[ddivint[DInt(Iloc(prices.v, -1)), Iloc(prices.v, 0)]], LAMBDA total_return :
    With(ddivint[total_return, Len(prices.v) - 1], LAMBDA daily_return :
    With(IF days > 30 THEN dmin[DInt(1), ddivint[DInt(30), days]] ELSE DInt(1),
         LAMBDA dampening_factor :
    With(dmul[dmulint[daily_return, days], dampening_factor], LAMBDA estimated_return :
    With(dmax[[ddivint[DInt(4), 5] EXCEPT !.neg = TRUE], dmin[DInt(2), estimated_return]],
         LAMBDA bounded : DFmt1(dmulint[bounded, 100]) \o "%")))))

safe_volatility_calc(prices, fallback) ==
    IF Len(prices.v) < 30 THEN fallback
    ELSE IF ~Numeric(prices) THEN fallback              \* bare except
    ELSE With(pct_change(prices.v), LAMBDA daily_returns :
             IF Len(daily_returns) < 20 THEN fallback
             ELSE \* daily_returns.std() * (252 ** 0.5) * 100, one decimal
                  With(RMul(Variance(daily_returns), RInt(252)), LAMBDA x :
                      With(RoundSqrt(x, 1000), LAMBDA m :
                          ToString(m \div 10) \o "." \o ToString(m % 10) \o "%")))

safe_drawdown_calc(prices, fallback) ==
    IF Len(prices.v) < 30 THEN fallback
    ELSE IF ~Numeric(prices) THEN fallback              \* bare except
    ELSE LET max_drawdown == MinDrawdown(prices.v)
         IN  FmtPct(max_drawdown)

\* a Sharpe ratio that is reported as missing when the volatility is zero
safe_sharpe_calc_unavailable(prices, fallback) ==
    IF Len(prices.v) < 100 THEN fallback
    ELSE IF ~Numeric(prices) THEN fallback              \* bare except
    ELSE With(pct_change(prices.v), LAMBDA daily_returns :
             IF Len(daily_returns) < 50 THEN fallback
             ELSE LET risk_free_rate == Rat(6, 100)
                  IN  With(RSub(RMul(Mean(daily_returns), RInt(252)), risk_free_rate),
                           LAMBDA excess_returns :
                      With(RMul(Variance(daily_returns), RInt(252)), LAMBDA vol2 :
                      IF vol2.n = 0 THEN NA
                      ELSE \* excess_returns / volatility, two decimals
                           With(RDiv(RMul(excess_returns, excess_returns), vol2), LAMBDA x :
                           With(RoundSqrt(x, 100), LAMBDA m :
                               (IF excess_returns.n < 0 THEN "-" ELSE "")
                               \o ToString(m \div 100) \o "."
                               \o ToString((m % 100) \div 10) \o ToString(m % 10))))))

safe_sharpe_calc(prices, fallback) ==
    IF Len(prices.v) < 100 THEN fallback
    ELSE IF ~Numeric(prices) THEN fallback              \* bare except
    ELSE With(pct_change(prices.v), LAMBDA daily_returns :
             IF Len(daily_returns) < 50 THEN fallback
             ELSE LET risk_free_rate == Rat(6, 100)
                  IN  With(RSub(RMul(Mean(daily_returns), RInt(252)), risk_free_rate),
                           LAMBDA excess_returns :
                      With(RMul(Variance(daily_returns), RInt(252)), LAMBDA vol2 :
                      IF vol2.n = 0 THEN fallback       \* volatility == 0
                      ELSE \* excess_returns / volatility, two decimals
                           With(RDiv(RMul(excess_returns, excess_returns), vol2), LAMBDA x :
                           With(RoundSqrt(x, 100), LAMBDA m :
                               (IF excess_returns.n < 0 THEN "-" ELSE "")
                               \o ToString(m \div 100) \o "."
                               \o ToString((m % 100) \div 10) \o ToString(m % 10))))))

safe_var_calc(prices, fallback) ==
    IF Len(prices.v) < 30 THEN fallback
    ELSE IF ~Numeric(prices) THEN fallback              \* bare except
    ELSE With(pct_change(prices.v), LAMBDA daily_returns :
             IF Len(daily_returns) < 20 THEN fallback
             ELSE FmtPct(Quantile(daily_returns, 5, 100)))

\* a moving average that reports 0.0 when the series is shorter than the window
safe_sma_calc_zero(prices, period) ==
    IF Len(prices.v) >= period /\ Numeric(prices)
    THEN Mean([i \in 1..period |-> RInt(prices.v[Len(prices.v) - period + i])])
    ELSE RInt(0)

safe_sma_calc(prices, period) ==
    IF Len(prices.v) >= period
    THEN IF ~Numeric(prices) THEN RInt(Iloc(prices.v, -1))   \* bare except
         ELSE LET n == Len(prices.v)
                  w == [i \in 1..period |-> RInt(prices.v[n - period + i])]
              IN  Mean(w)
    ELSE RInt(Iloc(prices.v, -1))

-----------------------------------------------------------------------------
(* Records *)

\* a resolver that tracks three assets
assets_three == <<"Equities", "Gold", "Bitcoin">>

\* assets = ['Equities', 'Gold', 'Bitcoin', 'REITs']
assets == <<"Equities", "Gold", "Bitcoin", "REITs">>

Assets == {assets[i] : i \in 1..Len(assets)}

\* datetime.now().isoformat(): a naive local timestamp
isoformat(t) == [t |-> t, tz |-> ""]

asset_defaults ==
    [Equities |->
        [current_price |-> 25000,
         hr |-> [m1 |-> "2.1%", m3 |-> "5.2%", m6 |-> "8.5%",
                 y1 |-> "15.0%", y5 |-> "12.0%", y10 |-> "11.0%"],
         rm |-> [volatility |-> "18.0%", max_drawdown |-> "-22.0%",
                 sharpe_ratio |-> "0.95", var_95 |-> "-2.1%"]],
     Gold |->
        [current_price |-> 65000,
         hr |-> [m1 |-> "1.5%", m3 |-> "4.2%", m6 |-> "12.5%",
                 y1 |-> "8.0%", y5 |-> "10.0%", y10 |-> "8.5%"],
         rm |-> [volatility |-> "15.0%", max_drawdown |-> "-18.0%",
                 sharpe_ratio |-> "1.05", var_95 |-> "-1.8%"]],
     Bitcoin |->
        [current_price |-> 4500000,
         hr |-> [m1 |-> "-5.2%", m3 |-> "15.8%", m6 |-> "45.2%",
                 y1 |-> "45.0%", y5 |-> "80.0%", y10 |-> "120.0%"],
         rm |-> [volatility |-> "65.0%", max_drawdown |-> "-75.0%",
                 sharpe_ratio |-> "0.85", var_95 |-> "-4.8%"]],
     REITs |->
        [current_price |-> 180,
         hr |-> [m1 |-> "1.8%", m3 |-> "4.5%", m6 |-> "8.2%",
                 y1 |-> "12.0%", y5 |-> "15.0%", y10 |-> "13.5%"],
         rm |-> [volatility |-> "22.0%", max_drawdown |-> "-28.0%",
                 sharpe_ratio |-> "0.88", var_95 |-> "-2.8%"]]]

\* the horizon, in trading days, behind each key of historical_returns
HorizonDays ==
    ("1_month" :> 21) @@ ("3_months" :> 63) @@ ("6_months" :> 126)
    @@ ("1_year" :> 252) @@ ("5_years_avg" :> 252 * 5) @@ ("10_years_avg" :> 252 * 10)

\* the keys of historical_returns, in the order of the source
HorizonKeys == <<"1_month", "3_months", "6_months", "1_year", "5_years_avg", "10_years_avg">>

historical_returns(r1m, r3m, r6m, r1y, r5y, r10y) ==
    ("1_month" :> r1m) @@ ("3_months" :> r3m) @@ ("6_months" :> r6m)
    @@ ("1_year" :> r1y) @@ ("5_years_avg" :> r5y) @@ ("10_years_avg" :> r10y)

\* a defaults record that takes every asset's figures from one row of the table
generate_complete_default_metrics_one_row(asset_name, t) ==
    LET defaults == asset_defaults["Equities"]
    IN  [asset_name    |-> asset_name,
         current_price |-> RInt(defaults.current_price),
         last_update   |-> isoformat(t),
         data_source   |-> "complete_defaults",
         historical_returns |->
             historical_returns(defaults.hr.m1, defaults.hr.m3, defaults.hr.m6,
                                defaults.hr.y1, defaults.hr.y5, defaults.hr.y10),
         risk_metrics  |-> defaults.rm,
         current_stats |->
             [current_price     |-> RInt(defaults.current_price),
              sma_50            |-> RMul(RInt(defaults.current_price), Rat(98, 100)),
              sma_200           |-> RMul(RInt(defaults.current_price), Rat(95, 100)),
              avg_annual_return |-> defaults.hr.y5]]

generate_complete_default_metrics(asset_name, t) ==
    LET defaults == IF asset_name \in DOMAIN asset_defaults
                    THEN asset_defaults[asset_name]
                    ELSE asset_defaults["Equities"]
    IN  [asset_name    |-> asset_name,
         current_price |-> RInt(defaults.current_price),
         last_update   |-> isoformat(t),
         data_source   |-> "complete_defaults",
         historical_returns |->
             historical_returns(defaults.hr.m1, defaults.hr.m3, defaults.hr.m6,
                                defaults.hr.y1, defaults.hr.y5, defaults.hr.y10),
         risk_metrics  |->
             [volatility   |-> defaults.rm.volatility,
              max_drawdown |-> defaults.rm.max_drawdown,
              sharpe_ratio |-> defaults.rm.sharpe_ratio,
              var_95       |-> defaults.rm.var_95],
         current_stats |->
             [current_price     |-> RInt(defaults.current_price),
              sma_50            |-> RMul(RInt(defaults.current_price), Rat(98, 100)),
              sma_200           |-> RMul(RInt(defaults.current_price), Rat(95, 100)),
              avg_annual_return |-> defaults.hr.y5]]

\* float(prices.iloc[-1]) raises: IndexError on an empty series, ValueError on text
FloatLastRaises(prices) == Len(prices.v) = 0 \/ prices.junk_last

\* a calculator whose figures depend on the source tag and on the clock
calculate_complete_metrics_from_prices_tagged(prices, asset_name, data_source, t) ==
    IF FloatLastRaises(prices) THEN Raised
    ELSE Dict(
        [asset_name    |-> asset_name,
         current_price |-> RInt(Iloc(prices.v, -1)),
         last_update   |-> isoformat(t),
         data_source   |-> data_source,
         historical_returns |->
             historical_returns("1.5%", "4.2%", "8.5%", "12.0%", "10.0%", "9.0%"),
         risk_metrics  |->
             [volatility   |-> IF data_source = "csv_primary" THEN "18.0%" ELSE "20.0%",
              max_drawdown |-> "-22.0%",
              sharpe_ratio |-> "0.85",
              var_95       |-> "-2.3%"],
         current_stats |->
             [current_price     |-> RInt(Iloc(prices.v, -1)),
              sma_50            |-> RInt(t),
              sma_200           |-> RInt(Iloc(prices.v, -1)),
              avg_annual_return |-> "10.0%"]])

\* the try block of _calculate_complete_metrics_from_prices
calculate_complete_metrics_from_prices_try(prices, asset_name, data_source, t) ==
    IF FloatLastRaises(prices) THEN Raised
    ELSE
    LET current_price == RInt(Iloc(prices.v, -1))
        returns_1m    == safe_return_calc(prices, 21, "1.5%")
        returns_3m    == safe_return_calc(prices, 63, "4.2%")
        returns_6m    == safe_return_calc(prices, 126, "8.5%")
        returns_1y    == safe_return_calc(prices, 252, "12.0%")
        returns_5y    == safe_return_calc(prices, 252 * 5, "10.0%")
        returns_10y   == safe_return_calc(prices, 252 * 10, "9.0%")
        volatility    == safe_volatility_calc(prices, "18.0%")
        max_drawdown  == safe_drawdown_calc(prices, "-22.0%")
        sharpe_ratio  == safe_sharpe_calc(prices, "0.85")
        var_95        == safe_var_calc(prices, "-2.3%")
        sma_50        == safe_sma_calc(prices, 50)
        sma_200       == safe_sma_calc(prices, 200)
        avg_annual    == IF returns_5y # NA THEN returns_5y
                         ELSE IF returns_1y # NA THEN returns_1y ELSE "10.0%"
        n             == Len(prices.v)
    IN  Dict(
        [asset_name    |-> asset_name,
         current_price |-> current_price,
         last_update   |-> isoformat(t),
         data_source   |-> data_source,
         historical_returns |->
             historical_returns(returns_1m, returns_3m, returns_6m,
                                returns_1y, returns_5y, returns_10y),
         risk_metrics  |->
             [volatility   |-> volatility,
              max_drawdown |-> max_drawdown,
              sharpe_ratio |-> sharpe_ratio,
              var_95       |-> var_95],
         current_stats |->
             [current_price     |-> current_price,
              sma_50            |-> sma_50,
              sma_200           |-> sma_200,
              avg_annual_return |-> avg_annual],
         data_quality  |->
             [data_points   |-> n,
              data_start    |-> prices.index_first,
              data_end      |-> prices.index_last,
              years_of_data |-> Rat(n, 252),
              completeness  |-> RMin(Rat(n, 252 * 10), RInt(1))]])

calculate_complete_metrics_from_prices(prices, asset_name, data_source, t) ==
    With(calculate_complete_metrics_from_prices_try(prices, asset_name, data_source, t),
         LAMBDA r : IF r.k = "raise"                    \* except Exception
                    THEN Dict(generate_complete_default_metrics(asset_name, t))
                    ELSE r)

-----------------------------------------------------------------------------
(* The primary dataset.  A column is [dtype, cells, junk_last]; the cell    *)
(* NaN is an empty CSV field.  Rows carry the labels 0, 1, 2, ...           *)

NaN == 0

\* Series.dropna(): the cells that are not NaN, with the labels they keep
dropna(col) ==
    LET keep == {i \in 1..Len(col.cells) : col.cells[i] # NaN}
        lo   == CHOOSE i \in keep : \A j \in keep : i <= j
        hi   == CHOOSE i \in keep : \A j \in keep : j <= i
    IN  [dtype       |-> col.dtype,
         v           |-> SelectSeq(col.cells, LAMBDA c : c # NaN),
         junk_last   |-> col.junk_last,
         index_first |-> IF keep = {} THEN "" ELSE ToString(col.label0 + lo - 1),
         index_last  |-> IF keep = {} THEN "" ELSE ToString(col.label0 + hi - 1)]

\* the try block of _get_csv_data
get_csv_data_try(asset, exists, df, t) ==
    IF ~exists THEN None
    ELSE IF ~df.readable THEN Raised                    \* pd.read_csv raises
    ELSE IF asset \notin DOMAIN df.columns THEN None
    ELSE With(dropna(df.columns[asset]), LAMBDA prices :
             IF Len(prices.v) = 0 THEN None
             ELSE calculate_complete_metrics_from_prices(prices, asset, "csv_primary", t))

\* a reader of the primary dataset without the except clause
get_csv_data_unguarded(asset, exists, df, t) ==
    get_csv_data_try(asset, exists, df, t)

get_csv_data(asset, exists, df, t) ==
    With(get_csv_data_try(asset, exists, df, t),
         LAMBDA r : IF r.k = "raise" THEN None ELSE r)  \* except Exception

-----------------------------------------------------------------------------
(* The file cache.  A file is absent, or holds a text; a text is either a   *)
(* complete JSON document or not (empty after open(.., 'w'), or cut short). *)
(* Every value of a record of this program is a str, an int, a float or a   *)
(* dict of these, all of which JSON writes and reads back unchanged.        *)

NoFile == [exists |-> FALSE]

File(text) == [exists |-> TRUE, text |-> text]

Truncated == [complete |-> FALSE]

\* a text followed by the rest of a longer one: no JSON document
Garbled == [complete |-> FALSE, rest |-> TRUE]

\* The file after a writer that holds it open since open(cache_file, 'w') puts
\* `text` at its offset 0 and closes.  Over the empty file this is `text`.  Over a
\* text that another writer has put there since, it is `text` when that is at
\* least as long as the other one, and `text` followed by the rest of the other
\* one when it is shorter; the length of a text depends on the digits of its
\* figures, which the model does not keep.
Overwrite(file, text) ==
    IF file.text = Truncated \/ file.text = text THEN {text} ELSE {text, Garbled}

\* a writer that leaves the data_source of the record out of the file
json_dump_untagged(data) ==
    [complete |-> TRUE,
     doc |-> IF data.k = "dict"
             THEN Dict([key \in DOMAIN data.v \ {"data_source"} |-> data.v[key]])
             ELSE data]

\* json.dump(data, f, indent=2, default=str)
json_dump(data) == [complete |-> TRUE, doc |-> data]

\* json.load(f)
json_load(text) == IF text.complete THEN text.doc ELSE Raised

\* the text of a file that open(cache_file, 'r') refuses to open
Denied == [complete |-> FALSE, denied |-> TRUE]

\* the try block of _get_cached_data
get_cached_data_try(asset, files) ==
    IF ~files[asset].exists THEN None
    ELSE IF files[asset].text = Denied THEN Raised      \* open: PermissionError
    ELSE json_load(files[asset].text)

\* a cache read without the try/except of _get_cached_data
get_cached_data_unguarded(asset, files) == get_cached_data_try(asset, files)

get_cached_data(asset, files) ==
    LET r == get_cached_data_try(asset, files)
    IN  IF r.k = "raise" THEN None ELSE r               \* except Exception

\* A timestamp string is [t, tz]: the instant t it denotes, read on the clock of
\* the resolver, and the suffix tz it is written with, one of "" (naive), "Z",
\* "+05:30", "-05:00", or "?" for text that is no timestamp.
max_age_hours == 24

\* datetime.fromisoformat
fromisoformat(s) ==
    IF s.tz = "" THEN [k |-> "datetime", t |-> s.t, aware |-> FALSE]
    ELSE IF s.tz \in {"+05:30", "-05:00"} THEN [k |-> "datetime", t |-> s.t, aware |-> TRUE]
    ELSE Raised                                         \* ValueError

\* a freshness check that still accepts an entry that is exactly max_age_hours old
is_data_fresh_try_inclusive(data, t) ==
    IF data.k # "dict" THEN Raised
    ELSE IF "last_update" \notin DOMAIN data.v THEN Bool(FALSE)
    ELSE Bool(t - data.v.last_update.t <= max_age_hours * 3600)

\* a freshness check whose limit is a minute
is_data_fresh_try_minute(data, t) ==
    IF data.k # "dict" THEN Raised
    ELSE IF "last_update" \notin DOMAIN data.v THEN Bool(FALSE)
    ELSE Bool(t - data.v.last_update.t < 60)

\* a freshness check that takes a timestamp ahead of the clock for stale
is_data_fresh_try_not_ahead(data, t) ==
    IF data.k # "dict" THEN Raised
    ELSE IF "last_update" \notin DOMAIN data.v THEN Bool(FALSE)
    ELSE Bool(0 <= t - data.v.last_update.t
              /\ t - data.v.last_update.t < max_age_hours * 3600)

\* the try block of _is_data_fresh
is_data_fresh_try(data, t) ==
    IF data.k # "dict" THEN Raised                      \* data.get: AttributeError
    ELSE IF "last_update" \notin DOMAIN data.v THEN Bool(FALSE)
    ELSE LET s1 == data.v.last_update
             s2 == IF s1.tz = "Z" THEN [s1 EXCEPT !.tz = ""] ELSE s1   \* .replace('Z', '')
             s3 == IF s2.tz = "+05:30" THEN [s2 EXCEPT !.tz = ""] ELSE s2   \* .split('+')[0]
             update_time == fromisoformat(s3)
         IN  IF update_time.k = "raise" THEN Raised
             ELSE IF update_time.aware THEN Raised      \* naive - aware: TypeError
             ELSE Bool(t - update_time.t < max_age_hours * 3600)

is_data_fresh(data, t) ==
    LET r == is_data_fresh_try(data, t)
    IN  IF r.k = "raise" THEN FALSE ELSE r.v            \* except Exception

\* a patch that stamps the tag of the serving tier over the stored one
ensure_data_source_overwrite(data, default_source) ==
    IF data.k = "dict"
    THEN Dict([data_source |-> default_source] @@ data.v)
    ELSE data

ensure_data_source(data, default_source) ==
    IF data.k = "dict" /\ "data_source" \notin DOMAIN data.v
    THEN Dict([data_source |-> default_source] @@ data.v)
    ELSE data

-----------------------------------------------------------------------------
(* The live provider.  ticker.history(period) raises or returns a frame     *)
(* [rows, Close]; hist.empty is rows = 0.                                   *)

symbol_map ==
    [Equities |-> "^NSEI", Gold |-> "GC=F", Bitcoin |-> "BTC-USD", REITs |-> "MINDSPACE.NS"]

periods == <<"10y", "5y", "2y", "1y">>

\* `if not hist.empty and len(hist) > 50: break`
NonTrivial(h) == h.rows # 0 /\ h.rows > 50

\* _fetch_live_data after the period loop, hist being its last assigned value
fetch_live_data_tail(asset, h, t) ==
    IF h.k = "None" \/ h.rows = 0 THEN None
    ELSE With(dropna(h.Close), LAMBDA prices :
             calculate_complete_metrics_from_prices(prices, asset,
                                                    "live_yfinance_last_resort", t))

-----------------------------------------------------------------------------
(* The environments explored.  One asset (the varied one) has an arbitrary  *)
(* column with no or a fresh cache file, or no CSV and an arbitrary cache   *)
(* file, and a provider that can answer anything; for the other three the   *)
(* CSV has no column, no cache file exists and the provider is unreachable. *)

Day == max_age_hours * 3600

\* the clock at the start
T0 == 2 * Day

\* time that passes between two calls: a minute, a day
TickSet == {60, Day}

StepCells(n, p0, p1, j) == [i \in 1..n |-> IF i <= j THEN p0 ELSE p1]

Column(dtype, cells, junk_last) ==
    [dtype |-> dtype, cells |-> cells, junk_last |-> junk_last, label0 |-> 0]

\* columns of the CSV: no usable cell, one price, a short and a long history,
\* text cells, text in the last cell
CsvColumns ==
    { Column("float64", <<NaN, NaN>>, FALSE),
      Column("float64", <<7>>, FALSE),
      Column("float64", <<NaN>> \o StepCells(ShortLen, 2, 3, ShortLen - 1), FALSE),
      Column("float64", StepCells(LongLen, 2, 1, LongLen - 20), FALSE),
      Column("object", StepCells(ShortLen, 5, 5, ShortLen), FALSE),
      Column("object", StepCells(ShortLen, 5, 5, ShortLen), TRUE) }

Frame(rows, cells) ==
    [k |-> "frame", rows |-> rows, Close |-> Column("float64", cells, FALSE)]

EmptyFrame == Frame(0, <<>>)

ShortFrame == Frame(ShortLen, StepCells(ShortLen, 4, 5, 5))

LongFrame == Frame(LongLen, StepCells(LongLen, 1, 2, 10))

\* rows without a closing price
NaNFrame == Frame(LongLen, StepCells(LongLen, NaN, NaN, LongLen))

\* what ticker.history(period) can answer while the provider is reachable: a
\* provider that fails or is short of history, and one that has gaps
HistoryOutcomes ==
    { {Raised, ShortFrame, LongFrame},
      {EmptyFrame, LongFrame, NaNFrame} }

\* yf.Ticker(symbol) raises
Unreachable == {[k |-> "unreachable"]}

\* a record as an earlier call of the resolver wrote it at time t
LiveRecord(asset, t) == fetch_live_data_tail(asset, LongFrame, t)

\* a record of another writer: no data_source key
LegacyRecord(asset, t) ==
    Dict([asset_name    |-> asset,
          current_price |-> RInt(9),
          last_update   |-> isoformat(t)])

\* a record of another writer without a last_update
UndatedRecord(asset) ==
    Dict([asset_name    |-> asset,
          current_price |-> RInt(9)])

\* a record whose last_update is text that is no timestamp
MisdatedRecord(asset, t) ==
    Dict([LegacyRecord(asset, t).v EXCEPT !.last_update.tz = "?"])

\* the suffixes a writer can put after the seconds of a timestamp
Suffixes == {"", "Z", "+05:30", "-05:00"}

\* a record whose writer qualified the timestamp with the suffix tz
QualifiedRecord(asset, t, tz) ==
    Dict([LiveRecord(asset, t).v EXCEPT !.last_update.tz = tz])

CacheFiles(asset) ==
    { NoFile,
      File(Truncated),
      File(json_dump(List)),
      File(json_dump(LegacyRecord(asset, T0 - 60))) }
    \cup { File(json_dump(LiveRecord(asset, t))) :
             t \in {T0 - 60, T0 - (Day - 1), T0 - Day, T0 + Day} }
    \cup { File(json_dump(QualifiedRecord(asset, T0 - 60, tz))) : tz \in Suffixes }
    \cup { File(Denied),
           File(json_dump(UndatedRecord(asset))),
           File(json_dump(MisdatedRecord(asset, T0 - 60))) }

\* the portfolios argument: the two portfolios of the caller, or nothing
PortfolioInputs ==
    { [current |-> [a \in Assets |-> 25], optimized |-> [a \in Assets |-> 25]],
      [current |-> <<>>, optimized |-> <<>>] }

EmptyDict == [a \in {} |-> 0]

\* what else a caller can pass: an empty mapping, and portfolios that leave
\* assets out and name an asset the resolver does not track
ArgumentInputs ==
    PortfolioInputs
    \cup { EmptyDict,
           [current   |-> ("Gold" :> 60) @@ ("Oil" :> 40),
            optimized |-> ("Gold" :> 100)] }

Procs == {"r1"}

\* refresh: the HTTP status, and the assets a live fetch was attempted for
NoResponse == [status |-> 0, fetched |-> {}]

ZeroHits == [csv_hits |-> 0, cache_hits |-> 0, live_fetches |-> 0, fallbacks |-> 0]

Init ==
    /\ now = T0
    /\ \E a \in Assets :
          /\ \/ /\ csv_exists = TRUE
                /\ csv \in {[readable |-> FALSE, columns |-> EmptyDict]}
                           \cup {[readable |-> TRUE, columns |-> EmptyDict]}
                           \cup {[readable |-> TRUE, columns |-> (a :> c)] : c \in CsvColumns}
                /\ cache \in {[b \in Assets |-> IF b = a THEN f ELSE NoFile] :
                                f \in {NoFile, File(json_dump(LiveRecord(a, T0 - 60)))}}
             \/ /\ csv_exists = FALSE
                /\ csv = [readable |-> FALSE, columns |-> EmptyDict]
                /\ cache \in {[b \in Assets |-> IF b = a THEN f ELSE NoFile] :
                                f \in CacheFiles(a)}
          /\ \E answers \in HistoryOutcomes :
                yf = [b \in Assets |-> IF b = a THEN answers ELSE Unreachable]
    /\ pc = [p \in Procs |-> "idle"]
    /\ idx = [p \in Procs |-> 1]
    /\ results = [p \in Procs |-> EmptyDict]
    /\ hits = [p \in Procs |-> ZeroHits]
    /\ period_i = [p \in Procs |-> 1]
    /\ hist = [p \in Procs |-> None]
    /\ live_data = [p \in Procs |-> None]
    /\ raised = [p \in Procs |-> FALSE]
    /\ portfolios = [p \in Procs |-> EmptyDict]
    /\ calls = 0
    /\ tier = [p \in Procs |-> EmptyDict]
    /\ io = [p \in Procs |-> <<>>]
    /\ refresh = NoResponse
    /\ series = None
    /\ out = <<>>

-----------------------------------------------------------------------------
(* calculate_all_metrics, one step per external operation *)

calc_vars == <<series, out>>

asset_of(p) == assets[idx[p]]

\* the end of one iteration of `for asset in assets`
NextAsset(p) ==
    IF idx[p] = Len(assets)
    THEN pc' = [pc EXCEPT ![p] = "done"] /\ idx' = idx
    ELSE pc' = [pc EXCEPT ![p] = "csv"] /\ idx' = [idx EXCEPT ![p] = idx[p] + 1]

\* the locals of an iteration before it has assigned them
FreshLocals(p) ==
    /\ period_i' = [period_i EXCEPT ![p] = 1]
    /\ hist' = [hist EXCEPT ![p] = None]
    /\ live_data' = [live_data EXCEPT ![p] = None]

\* results[asset] = rec; <counter> += 1
Assign(p, asset, rec, branch, counter) ==
    /\ results' = [results EXCEPT ![p] = (asset :> rec) @@ results[p]]
    /\ hits' = [hits EXCEPT ![p][counter] = @ + 1]
    /\ tier' = [tier EXCEPT ![p] = (asset :> branch) @@ tier[p]]

\* an external operation of the current iteration, with its argument and outcome
Op(name, arg, res) == [op |-> name, arg |-> arg, out |-> res]

Log(p, name, arg, res) == io' = [io EXCEPT ![p] = Append(@, Op(name, arg, res))]

\* an exception leaves calculate_all_metrics
Escape(p) ==
    /\ raised' = [raised EXCEPT ![p] = TRUE]
    /\ pc' = [pc EXCEPT ![p] = "done"]
    /\ UNCHANGED <<idx, results, hits, tier>>

\* a caller enters calculate_all_metrics(portfolios)
Enter(p, inputs) ==
    /\ pc[p] = "idle"
    /\ calls < MaxCalls
    /\ \E pf \in inputs : portfolios' = [portfolios EXCEPT ![p] = pf]
    /\ calls' = calls + 1
    /\ pc' = [pc EXCEPT ![p] = "csv"]
    /\ idx' = [idx EXCEPT ![p] = 1]
    /\ results' = [results EXCEPT ![p] = EmptyDict]
    /\ hits' = [hits EXCEPT ![p] = ZeroHits]
    /\ tier' = [tier EXCEPT ![p] = EmptyDict]
    /\ io' = [io EXCEPT ![p] = <<>>]
    /\ raised' = [raised EXCEPT ![p] = FALSE]
    /\ refresh' = NoResponse
    /\ FreshLocals(p)
    /\ UNCHANGED <<now, csv_exists, csv, cache, yf, calc_vars>>

Call(p) == Enter(p, PortfolioInputs)

\* a resolver that keeps the record of the primary dataset and consults the cache all the same
CsvStep_falls_through(p) ==
    /\ pc[p] = "csv"
    /\ \E asset \in {asset_of(p)} :
       \E csv_data \in {get_csv_data(asset, csv_exists, csv, now)} :
           /\ io' = [io EXCEPT ![p] = <<Op("read_csv", "", "")>>]
           /\ IF Truthy(csv_data)
              THEN Assign(p, asset, csv_data.v, "csv", "csv_hits")
              ELSE UNCHANGED <<results, hits, tier>>
           /\ pc' = [pc EXCEPT ![p] = "cache"]
           /\ UNCHANGED <<idx, raised>>
    /\ FreshLocals(p)
    /\ UNCHANGED <<now, csv_exists, csv, cache, yf, portfolios, calls, refresh, calc_vars>>

\* PRIORITY 1: csv_data = self._get_csv_data(asset)
CsvStep(p) ==
    /\ pc[p] = "csv"
    /\ \E asset \in {asset_of(p)} :
       \E csv_data \in {get_csv_data(asset, csv_exists, csv, now)} :
           /\ io' = [io EXCEPT ![p] = <<Op("read_csv", "", "")>>]
           /\ IF csv_data.k = "raise" THEN Escape(p)
              ELSE IF Truthy(csv_data)
              THEN Assign(p, asset, csv_data.v, "csv", "csv_hits") /\ NextAsset(p)
                   /\ raised' = raised
              ELSE /\ pc' = [pc EXCEPT ![p] = "cache"]
                   /\ UNCHANGED <<idx, results, hits, tier, raised>>
    /\ FreshLocals(p)
    /\ UNCHANGED <<now, csv_exists, csv, cache, yf, portfolios, calls, refresh, calc_vars>>

\* a cache step that evicts the entry it does not serve
CacheStep_evicts(p) ==
    /\ pc[p] = "cache"
    /\ \E asset \in {asset_of(p)} :
       \E cached_data \in {get_cached_data(asset, cache)} :
           /\ Log(p, "cache_read", asset, "")
           /\ IF cached_data.k = "raise" THEN Escape(p) /\ cache' = cache
              ELSE IF Truthy(cached_data) /\ is_data_fresh(cached_data, now)
              THEN Assign(p, asset, ensure_data_source(cached_data, "cached_data").v,
                          "cache", "cache_hits")
                   /\ NextAsset(p) /\ raised' = raised /\ cache' = cache
              ELSE /\ pc' = [pc EXCEPT ![p] = "live"]
                   /\ cache' = [cache EXCEPT ![asset] = NoFile]
                   /\ UNCHANGED <<idx, results, hits, tier, raised>>
    /\ UNCHANGED <<now, csv_exists, csv, yf, period_i, hist, live_data,
                   portfolios, calls, refresh, calc_vars>>

\* PRIORITY 2: cached_data = self._get_cached_data(asset), freshness check
CacheStep(p) ==
    /\ pc[p] = "cache"
    /\ \E asset \in {asset_of(p)} :
       \E cached_data \in {get_cached_data(asset, cache)} :
           /\ Log(p, "cache_read", asset, "")
           /\ IF cached_data.k = "raise" THEN Escape(p)
              ELSE IF Truthy(cached_data) /\ is_data_fresh(cached_data, now)
              THEN Assign(p, asset, ensure_data_source(cached_data, "cached_data").v,
                          "cache", "cache_hits")
                   /\ NextAsset(p) /\ raised' = raised
              ELSE /\ pc' = [pc EXCEPT ![p] = "live"]
                   /\ UNCHANGED <<idx, results, hits, tier, raised>>
    /\ UNCHANGED <<now, csv_exists, csv, cache, yf, period_i, hist, live_data,
                   portfolios, calls, refresh, calc_vars>>

\* a defaults branch that counts its record as a live fetch
Defaults_miscounted(p, asset) ==
    Assign(p, asset, generate_complete_default_metrics(asset, now), "defaults", "live_fetches")
    /\ NextAsset(p)

\* PRIORITY 4: fallback_data = self._generate_complete_default_metrics(asset)
Defaults(p, asset) ==
    Assign(p, asset, generate_complete_default_metrics(asset, now), "defaults", "fallbacks")
    /\ NextAsset(p)

\* what ticker.history answered
OutcomeOf(h) ==
    IF h.k = "raise" THEN "raise"
    ELSE IF h.rows = 0 THEN "empty"
    ELSE IF NonTrivial(h) THEN "series" ELSE "short"

\* PRIORITY 3 begins: _fetch_live_data up to ticker = yf.Ticker(symbol)
LiveBegin(p) ==
    /\ pc[p] = "live"
    /\ LET asset == asset_of(p)
       IN  IF asset \notin DOMAIN symbol_map \/ yf[asset] = Unreachable
           THEN \* return None: no symbol, or the outer except
                Defaults(p, asset)
           ELSE /\ pc' = [pc EXCEPT ![p] = "history"]
                /\ UNCHANGED <<idx, results, hits, tier>>
    /\ UNCHANGED <<now, csv_exists, csv, cache, yf, period_i, hist, live_data, raised,
                   portfolios, calls, io, refresh, calc_vars>>

\* a period loop that asks again for a window whose request raised
LiveRequest_retries(p) ==
    /\ pc[p] = "history"
    /\ period_i[p] <= Len(periods)
    /\ \E h \in yf[asset_of(p)] :
          /\ IF h.k = "raise"
             THEN UNCHANGED <<period_i, hist>>
             ELSE /\ hist' = [hist EXCEPT ![p] = h]
                  /\ period_i' = [period_i EXCEPT ![p] =
                                     IF NonTrivial(h) THEN Len(periods) + 1 ELSE @ + 1]
          /\ Log(p, "history", periods[period_i[p]], OutcomeOf(h))
    /\ UNCHANGED <<now, csv_exists, csv, cache, yf, pc, idx, results, hits, live_data,
                   raised, portfolios, calls, tier, refresh, calc_vars>>

\* one iteration of `for period in [...]`: hist = ticker.history(period=period)
LiveRequest(p) ==
    /\ pc[p] = "history"
    /\ period_i[p] <= Len(periods)
    /\ \E h \in yf[asset_of(p)] :
          /\ IF h.k = "raise"
             THEN \* except: continue
                  /\ period_i' = [period_i EXCEPT ![p] = @ + 1]
                  /\ hist' = hist
             ELSE /\ hist' = [hist EXCEPT ![p] = h]
                  /\ period_i' = [period_i EXCEPT ![p] =
                                     IF NonTrivial(h) THEN Len(periods) + 1 ELSE @ + 1]
          /\ Log(p, "history", periods[period_i[p]], OutcomeOf(h))
    /\ UNCHANGED <<now, csv_exists, csv, cache, yf, pc, idx, results, hits, live_data,
                   raised, portfolios, calls, tier, refresh, calc_vars>>

\* _fetch_live_data after the loop, and the branch on live_data
LiveFinish(p) ==
    /\ pc[p] = "history"
    /\ period_i[p] > Len(periods)
    /\ \E asset \in {asset_of(p)} :
       \E fetched \in {fetch_live_data_tail(asset, hist[p], now)} :
           IF Truthy(fetched)
           THEN /\ \E live \in {ensure_data_source(fetched, "live_yfinance")} :
                      /\ Assign(p, asset, live.v, "live", "live_fetches")
                      /\ live_data' = [live_data EXCEPT ![p] = live]
                /\ pc' = [pc EXCEPT ![p] = "write_open"]
                /\ idx' = idx
           ELSE Defaults(p, asset) /\ live_data' = live_data
    /\ UNCHANGED <<now, csv_exists, csv, cache, yf, period_i, hist, raised,
                   portfolios, calls, io, refresh, calc_vars>>

\* a write-back without the try/except of _update_cache
WriteOpen_unguarded(p) ==
    /\ pc[p] = "write_open"
    /\ \E ok \in BOOLEAN :
          IF ok
          THEN /\ cache' = [cache EXCEPT ![asset_of(p)] = File(Truncated)]
               /\ pc' = [pc EXCEPT ![p] = "write_dump"]
               /\ Log(p, "cache_open", asset_of(p), "")
               /\ UNCHANGED <<idx, results, hits, tier, raised>>
          ELSE /\ Escape(p)
               /\ Log(p, "cache_open", asset_of(p), "raise")
               /\ cache' = cache
    /\ UNCHANGED <<now, csv_exists, csv, yf, period_i, hist, live_data,
                   portfolios, calls, refresh, calc_vars>>

\* _update_cache: open(cache_file, 'w') creates or empties the file, or raises
WriteOpen(p) ==
    /\ pc[p] = "write_open"
    /\ \E ok \in BOOLEAN :
          IF ok
          THEN /\ cache' = [cache EXCEPT ![asset_of(p)] = File(Truncated)]
               /\ pc' = [pc EXCEPT ![p] = "write_dump"]
               /\ Log(p, "cache_open", asset_of(p), "")
               /\ idx' = idx
          ELSE \* except Exception: logged
               /\ NextAsset(p)
               /\ Log(p, "cache_open", asset_of(p), "raise")
               /\ cache' = cache
    /\ UNCHANGED <<now, csv_exists, csv, yf, results, hits, period_i, hist, live_data,
                   raised, portfolios, calls, tier, refresh, calc_vars>>

\* _update_cache: json.dump(data, f, indent=2, default=str) and the close of the file
WriteDump(p) ==
    /\ pc[p] = "write_dump"
    /\ \E text \in Overwrite(cache[asset_of(p)], json_dump(live_data[p])) :
          cache' = [cache EXCEPT ![asset_of(p)] = File(text)]
    /\ Log(p, "cache_dump", asset_of(p), "")
    /\ NextAsset(p)
    /\ UNCHANGED <<now, csv_exists, csv, yf, results, hits, period_i, hist, live_data,
                   raised, portfolios, calls, tier, refresh, calc_vars>>

\* the call has returned; time passes until the next one
Tick ==
    /\ \A p \in Procs : pc[p] = "done"
    /\ \E d \in TickSet : now' = now + d
    /\ pc' = [p \in Procs |-> "idle"]
    /\ refresh' = NoResponse
    /\ UNCHANGED <<csv_exists, csv, cache, yf, idx, results, hits, period_i, hist, live_data,
                   raised, portfolios, calls, tier, io, calc_vars>>

\* POST /force-refresh (app.py): historical_analyzer.force_refresh_all() is not a
\* method of EnhancedHistoricalAnalyzer; the AttributeError is caught, answer 500
ForceRefresh ==
    /\ \A p \in Procs : pc[p] \in {"idle", "done"}
    /\ refresh' = [status |-> 500, fetched |-> {}]
    /\ UNCHANGED <<now, csv_exists, csv, cache, yf, pc, idx, results, hits, period_i, hist,
                   live_data, raised, portfolios, calls, tier, io, calc_vars>>

Next ==
    \/ \E p \in Procs : Call(p)
    \/ \E p \in Procs : CsvStep(p)
    \/ \E p \in Procs : CacheStep(p)
    \/ \E p \in Procs : LiveBegin(p)
    \/ \E p \in Procs : LiveRequest(p)
    \/ \E p \in Procs : LiveFinish(p)
    \/ \E p \in Procs : WriteOpen(p)
    \/ \E p \in Procs : WriteDump(p)
    \/ Tick
    \/ ForceRefresh

Spec == Init /\ [][Next]_vars

\* one step of the body of calculate_all_metrics
Resolve(p) ==
    \/ CsvStep(p)
    \/ CacheStep(p)
    \/ LiveBegin(p)
    \/ LiveRequest(p)
    \/ LiveFinish(p)
    \/ WriteOpen(p)
    \/ WriteDump(p)

\* A call that has been entered keeps running: every statement is sequential
\* code of one thread, and every external operation (read_csv, open, json.load,
\* ticker.history, json.dump) returns or raises.  Callers, the clock and the
\* refresh endpoint are under no obligation.
SpecRun == Spec /\ \A p \in Procs : WF_vars(Resolve(p))

-----------------------------------------------------------------------------
(* Two requests served at once.  app.run serves each request in a thread of  *)
(* its own, and both threads call calculate_all_metrics of the one           *)
(* historical_analyzer of app.py; the cache files are all they share.  The   *)
(* primary dataset is absent, one asset has no or a stale cache file and a   *)
(* provider that answers with a long history.                                *)

Pair == {"r1", "r2"}

\* the asset whose provider answers
PairAsset == "Equities"

InitPair ==
    /\ now = T0
    /\ csv_exists = FALSE
    /\ csv = [readable |-> FALSE, columns |-> EmptyDict]
    /\ cache \in {[b \in Assets |-> IF b = PairAsset THEN f ELSE NoFile] :
                    f \in {NoFile, File(json_dump(LiveRecord(PairAsset, T0 - Day)))}}
    /\ yf = [b \in Assets |-> IF b = PairAsset THEN {LongFrame} ELSE Unreachable]
    /\ pc = [p \in Pair |-> "idle"]
    /\ idx = [p \in Pair |-> 1]
    /\ results = [p \in Pair |-> EmptyDict]
    /\ hits = [p \in Pair |-> ZeroHits]
    /\ period_i = [p \in Pair |-> 1]
    /\ hist = [p \in Pair |-> None]
    /\ live_data = [p \in Pair |-> None]
    /\ raised = [p \in Pair |-> FALSE]
    /\ portfolios = [p \in Pair |-> EmptyDict]
    /\ calls = 0
    /\ tier = [p \in Pair |-> EmptyDict]
    /\ io = [p \in Pair |-> <<>>]
    /\ refresh = NoResponse
    /\ series = None
    /\ out = <<>>

\* a minute passes while the requests are served
PairTick ==
    /\ now - T0 < 60 * MaxTicks
    /\ now' = now + 60
    /\ UNCHANGED <<csv_exists, csv, cache, yf, pc, idx, results, hits, period_i, hist,
                   live_data, raised, portfolios, calls, tier, io, refresh, calc_vars>>

NextPair ==
    \/ \E p \in Pair : Enter(p, ArgumentInputs)
    \/ \E p \in Pair : CsvStep(p)
    \/ \E p \in Pair : CacheStep(p)
    \/ \E p \in Pair : LiveBegin(p)
    \/ \E p \in Pair : LiveRequest(p)
    \/ \E p \in Pair : LiveFinish(p)
    \/ \E p \in Pair : WriteOpen(p)
    \/ \E p \in Pair : WriteDump(p)
    \/ PairTick

SpecPair == InitPair /\ [][NextPair]_vars

-----------------------------------------------------------------------------
(* The calculator on its own: one price series, computed repeatedly while    *)
(* the clock advances, under either source tag.                              *)

\* the series handed to _calculate_complete_metrics_from_prices
SeriesInputs ==
    {dropna(c) : c \in CsvColumns}
    \cup {dropna(ShortFrame.Close), dropna(LongFrame.Close),
          dropna(Column("float64", StepCells(SharpeLen, 2, 3, SharpeLen \div 2), FALSE))}
    \cup {dropna(Column("float64", StepCells(SmaLen, 2, 3, SmaLen \div 2), FALSE))}
    \cup {dropna(Column("float64", StepCells(SharpeLen, 4, 4, SharpeLen), FALSE))}
    \cup {dropna(Column("float64", StepCells(YearLen, 2, 3, YearLen \div 2), FALSE))}
    \cup {dropna(Column("float64", StepCells(ShortLen, 1, 3, 1), FALSE)),
          dropna(Column("float64", StepCells(ShortLen, 3, 1, 1), FALSE))}

SourceTags == {"csv_primary", "live_yfinance_last_resort"}

InitCalc ==
    /\ now = T0
    /\ series \in SeriesInputs
    /\ out = <<>>
    /\ csv_exists = FALSE
    /\ csv = [readable |-> FALSE, columns |-> EmptyDict]
    /\ cache = [b \in Assets |-> NoFile]
    /\ yf = [b \in Assets |-> Unreachable]
    /\ pc = [p \in Procs |-> "idle"]
    /\ idx = [p \in Procs |-> 1]
    /\ results = [p \in Procs |-> EmptyDict]
    /\ hits = [p \in Procs |-> ZeroHits]
    /\ period_i = [p \in Procs |-> 1]
    /\ hist = [p \in Procs |-> None]
    /\ live_data = [p \in Procs |-> None]
    /\ raised = [p \in Procs |-> FALSE]
    /\ portfolios = [p \in Procs |-> EmptyDict]
    /\ calls = 0
    /\ tier = [p \in Procs |-> EmptyDict]
    /\ io = [p \in Procs |-> <<>>]
    /\ refresh = NoResponse

resolver_vars == <<csv_exists, csv, cache, yf, pc, idx, results, hits, period_i, hist,
                   live_data, raised, portfolios, calls, tier, io, refresh>>

\* metrics = self._calculate_complete_metrics_from_prices(prices, asset_name, data_source)
Compute(asset_name, data_source) ==
    /\ Len(out) < MaxRuns
    /\ out' = Append(out, calculate_complete_metrics_from_prices(series, asset_name,
                                                                 data_source, now))
    /\ UNCHANGED <<now, series, resolver_vars>>

\* a minute passes
CalcTick ==
    /\ now - T0 < 60 * MaxRuns
    /\ now' = now + 60
    /\ UNCHANGED <<series, out, resolver_vars>>

NextCalc ==
    \/ \E asset_name \in {"Gold"} : \E data_source \in SourceTags :
          Compute(asset_name, data_source)
    \/ CalcTick

SpecCalc == InitCalc /\ [][NextCalc]_vars

-----------------------------------------------------------------------------
(* _safe_return_calc on its own, for the six horizons and fallbacks that     *)
(* _calculate_complete_metrics_from_prices passes to it.                     *)

\* the fallback passed with each horizon
ReturnFallback ==
    ("1_month" :> "1.5%") @@ ("3_months" :> "4.2%") @@ ("6_months" :> "8.5%")
    @@ ("1_year" :> "12.0%") @@ ("5_years_avg" :> "10.0%") @@ ("10_years_avg" :> "9.0%")

\* the series of the calculator, and one that covers the five-year horizon
ReturnInputs ==
    SeriesInputs
    \cup {dropna(Column("float64", StepCells(DeepLen, 1, 32, DeepLen \div 2), FALSE))}

InitReturn ==
    /\ now = T0
    /\ series \in ReturnInputs
    /\ out = <<>>
    /\ csv_exists = FALSE
    /\ csv = [readable |-> FALSE, columns |-> EmptyDict]
    /\ cache = [b \in Assets |-> NoFile]
    /\ yf = [b \in Assets |-> Unreachable]
    /\ pc = [p \in Procs |-> "idle"]
    /\ idx = [p \in Procs |-> 1]
    /\ results = [p \in Procs |-> EmptyDict]
    /\ hits = [p \in Procs |-> ZeroHits]
    /\ period_i = [p \in Procs |-> 1]
    /\ hist = [p \in Procs |-> None]
    /\ live_data = [p \in Procs |-> None]
    /\ raised = [p \in Procs |-> FALSE]
    /\ portfolios = [p \in Procs |-> EmptyDict]
    /\ calls = 0
    /\ tier = [p \in Procs |-> EmptyDict]
    /\ io = [p \in Procs |-> <<>>]
    /\ refresh = NoResponse

\* returns_<key> = self._safe_return_calc(prices, <days>, <fallback>)
ReturnCalc(key) ==
    /\ Len(out) < MaxRuns
    /\ out' = Append(out, [key |-> key,
                           value |-> safe_return_calc(series, HorizonDays[key],
                                                      ReturnFallback[key])])
    /\ UNCHANGED <<now, series, resolver_vars>>

NextReturn == \E key \in DOMAIN HorizonDays : ReturnCalc(key)

SpecReturn == InitReturn /\ [][NextReturn]_vars

-----------------------------------------------------------------------------
(* The extrapolation of _safe_return_calc in binary64, for histories of 10   *)
(* to 29 points and the six horizons.                                        *)

\* first and last price of the histories of TieLen points: with ten intervals
\* the estimates are 181.25%, -71.25%, 71.25% and 198.75%, and 150%
TiePrices == {<<48, 77>>, <<80, 61>>, <<80, 99>>, <<80, 133>>, <<2, 3>>}

ExtrapolationInputs ==
    {dropna(Column("float64", StepCells(TieLen, pr[1], pr[2], TieLen \div 2), FALSE)) :
        pr \in TiePrices}
    \cup {dropna(ShortFrame.Close),
          dropna(Column("float64", StepCells(ShortLen, 1, 3, 1), FALSE)),
          dropna(Column("float64", StepCells(ShortLen, 3, 1, 1), FALSE))}

InitFloat ==
    /\ now = T0
    /\ series \in ExtrapolationInputs
    /\ out = <<>>
    /\ csv_exists = FALSE
    /\ csv = [readable |-> FALSE, columns |-> EmptyDict]
    /\ cache = [b \in Assets |-> NoFile]
    /\ yf = [b \in Assets |-> Unreachable]
    /\ pc = [p \in Procs |-> "idle"]
    /\ idx = [p \in Procs |-> 1]
    /\ results = [p \in Procs |-> EmptyDict]
    /\ hits = [p \in Procs |-> ZeroHits]
    /\ period_i = [p \in Procs |-> 1]
    /\ hist = [p \in Procs |-> None]
    /\ live_data = [p \in Procs |-> None]
    /\ raised = [p \in Procs |-> FALSE]
    /\ portfolios = [p \in Procs |-> EmptyDict]
    /\ calls = 0
    /\ tier = [p \in Procs |-> EmptyDict]
    /\ io = [p \in Procs |-> <<>>]
    /\ refresh = NoResponse

\* returns_<key> = self._safe_return_calc(prices, <days>, <fallback>) where
\* len(prices) < max(days + 1, 30) and len(prices) >= 10
Extrapolate(key) ==
    /\ Len(out) < MaxRuns
    /\ Len(series.v) < Max2(HorizonDays[key] + 1, 30)
    /\ Len(series.v) >= 10
    /\ Numeric(series)
    /\ out' = Append(out, [key |-> key,
                           value |-> extrapolated_return(series, HorizonDays[key])])
    /\ UNCHANGED <<now, series, resolver_vars>>

NextFloat == \E key \in DOMAIN HorizonDays : Extrapolate(key)

SpecFloat == InitFloat /\ [][NextFloat]_vars

-----------------------------------------------------------------------------
(* Properties of calculate_all_metrics *)

Returned(p) == pc[p] = "done" /\ ~raised[p]

\* the sections of a record whose values are display strings
NoSentinel(rec) ==
    /\ {"historical_returns", "risk_metrics", "current_stats"} \subseteq DOMAIN rec
    /\ \A h \in DOMAIN rec.historical_returns : rec.historical_returns[h] # NA
    /\ \A m \in DOMAIN rec.risk_metrics : rec.risk_metrics[m] # NA
    /\ rec.current_stats.avg_annual_return # NA

\* the cache file of the asset holds a record that this resolver wrote
ResolverWritten(file) ==
    /\ file.exists /\ file.text.complete /\ file.text.doc.k = "dict"
    /\ "data_source" \in DOMAIN file.text.doc.v
    /\ file.text.doc.v.data_source = "live_yfinance_last_resort"

\* C1: when calculate_all_metrics returns, the result holds one record for each of
\* the four assets and, unless the record was served from a cache file that the
\* resolver did not write, none of its historical returns, risk metrics or its
\* average annual return is "N/A"
C1_NoMissingValue ==
    \A p \in Procs :
        Returned(p) =>
            /\ DOMAIN results[p] = Assets
            /\ \A a \in Assets :
                   (tier[p][a] = "cache" => ResolverWritten(cache[a]))
                       => NoSentinel(results[p][a])

\* a call has returned a record computed from a series of length 1
C1_Witness ==
    \E p \in Procs : \E a \in Assets :
        /\ Returned(p)
        /\ tier[p][a] = "csv"
        /\ results[p][a].data_quality.data_points = 1

\* the asset whose iteration the log io[p] describes, once the log is not empty
IoAsset(p) == IF pc[p] = "csv" THEN assets[idx[p] - 1] ELSE assets[idx[p]]

\* the call is running or has just returned: the clock is the one the call read
InCall(p) == pc[p] # "idle"

\* the primary dataset holds a non-empty series for the asset
HoldsSeries(a) ==
    /\ csv_exists /\ csv.readable /\ a \in DOMAIN csv.columns
    /\ Len(dropna(csv.columns[a]).v) > 0

\* C2 (as stated): whenever the primary dataset holds a non-empty series for an
\* asset, the record resolved for it is the one computed from that series and is
\* tagged csv_primary, whatever the cache holds
C2_PrimaryWins ==
    \A p \in Procs : \A a \in Assets :
        (InCall(p) /\ a \in DOMAIN results[p] /\ HoldsSeries(a)) =>
            /\ tier[p][a] = "csv"
            /\ results[p][a].data_source = "csv_primary"
            /\ results[p][a].data_source # "cached_data"

\* the position of an external operation in the chain of tiers
Rank(e) ==
    CASE e.op = "read_csv"   -> 1
      [] e.op = "cache_read" -> 2
      [] e.op = "history"    -> 3
      [] e.op = "cache_open" -> 4
      [] e.op = "cache_dump" -> 5

\* primary dataset, then cache, then live fetch, then write-back, none revisited
InTierOrder(l) ==
    /\ l[1].op = "read_csv"
    /\ \A i, j \in DOMAIN l :
          i < j => /\ Rank(l[i]) <= Rank(l[j])
                   /\ Rank(l[i]) = Rank(l[j]) => l[i].op = "history"
    /\ (\E i \in DOMAIN l : Rank(l[i]) > 2) => l[2].op = "cache_read"

\* the record that the tier named by t yields for asset a, alone
TierRecord(p, a, t) ==
    CASE t = "csv"      -> get_csv_data(a, csv_exists, csv, now).v
      [] t = "cache"    -> ensure_data_source(get_cached_data(a, cache), "cached_data").v
      [] t = "live"     -> live_data[p].v
      [] t = "defaults" -> generate_complete_default_metrics(a, now)

Timestamped(file) ==
    /\ file.exists /\ file.text.complete /\ file.text.doc.k = "dict"
    /\ "last_update" \in DOMAIN file.text.doc.v
    /\ file.text.doc.v.last_update.tz = ""

\* seconds between the last_update of the cache file and the clock
Age(file) == now - file.text.doc.v.last_update.t

\* the cache has been read for the asset and nothing has been done since
CacheJustRead(p) ==
    /\ InCall(p)
    /\ Len(io[p]) = 2
    /\ io[p][2].op = "cache_read"

\* C4: a timestamped cache entry that the resolver has read is the source of the
\* record exactly when it is less than 24 hours old, and every record served
\* from the cache is less than 24 hours old
C4_FreshnessGate ==
    \A p \in Procs :
        /\ (CacheJustRead(p) /\ Timestamped(cache[IoAsset(p)])) =>
              LET a == IoAsset(p)
              IN  (a \in DOMAIN tier[p] /\ tier[p][a] = "cache")
                      <=> Age(cache[a]) < 24 * 3600
        /\ \A a \in DOMAIN tier[p] :
              (InCall(p) /\ tier[p][a] = "cache") =>
                  now - results[p][a].last_update.t < 24 * 3600

\* an entry that is exactly 24 hours old was read and resolution went on to the
\* live fetch
C4_Witness ==
    \E p \in Procs :
        /\ CacheJustRead(p)
        /\ pc[p] = "live"
        /\ Timestamped(cache[IoAsset(p)])
        /\ Age(cache[IoAsset(p)]) = 24 * 3600

\* the record stored in the cache file of the asset
Stored(a) == cache[a].text.doc.v

\* an asset without a primary-dataset series was served from its cache entry
ServedFromCache(p, a) ==
    /\ InCall(p)
    /\ a \in DOMAIN tier[p]
    /\ tier[p][a] = "cache"

Windows(l) == {i \in DOMAIN l : l[i].op = "history"}

\* every window of the list was requested and each request returned no rows
AllWindowsEmpty(l) ==
    /\ Cardinality(Windows(l)) = Len(periods)
    /\ \A i \in Windows(l) : l[i].out = "empty"

\* C6: when the primary dataset and the cache gave nothing for an asset and all
\* four history windows came back empty, the record is the defaults record: tag
\* complete_defaults, and price, six returns and four risk metrics of the
\* asset's row of the defaults table
C6_DefaultsExact ==
    \A p \in Procs :
        (InCall(p) /\ AllWindowsEmpty(io[p]) /\ IoAsset(p) \in DOMAIN results[p]) =>
            LET a   == IoAsset(p)
                rec == results[p][a]
                row == asset_defaults[a]
            IN  /\ tier[p][a] = "defaults"
                /\ rec.data_source = "complete_defaults"
                /\ rec.current_price = RInt(row.current_price)
                /\ rec.current_stats.current_price = RInt(row.current_price)
                /\ rec.historical_returns =
                      historical_returns(row.hr.m1, row.hr.m3, row.hr.m6,
                                         row.hr.y1, row.hr.y5, row.hr.y10)
                /\ rec.risk_metrics = row.rm

\* the defaults record of Bitcoin was assigned after four empty windows
C6_Witness ==
    \E p \in Procs :
        /\ InCall(p)
        /\ AllWindowsEmpty(io[p])
        /\ IoAsset(p) = "Bitcoin"
        /\ "Bitcoin" \in DOMAIN results[p]
        /\ results[p]["Bitcoin"].risk_metrics.volatility = "65.0%"

\* C7: no exception leaves calculate_all_metrics, and when the call has ended
\* the result holds a record for each of the four assets
C7_NeverRaises ==
    \A p \in Procs :
        /\ ~raised[p]
        /\ pc[p] = "done" => \A a \in Assets : a \in DOMAIN results[p]

\* a call has returned although the primary dataset could not be read and the
\* write-back of the last asset's live record failed
C7_Witness ==
    \E p \in Procs :
        /\ Returned(p)
        /\ csv_exists /\ ~csv.readable
        /\ io[p][Len(io[p])] = Op("cache_open", "REITs", "raise")
        /\ DOMAIN results[p] = Assets

\* C8 (as stated): once POST /force-refresh has answered, a live fetch has been
\* attempted for each of the four assets and the request has succeeded
C8_ForceRefreshFetchesAll ==
    refresh.status # 0 =>
        /\ refresh.status = 200
        /\ refresh.fetched = Assets

\* the write-back of the asset of the current iteration has completed
WrittenBack(p) ==
    /\ InCall(p)
    /\ io[p] # <<>>
    /\ io[p][Len(io[p])].op = "cache_dump"

\* C9: after the write-back of an asset resolved by the live fetch, reading the
\* asset's cache file gives exactly the record assigned to results[asset]
C9_WriteBack ==
    \A p \in Procs :
        WrittenBack(p) =>
            LET a == IoAsset(p)
            IN  /\ tier[p][a] = "live"
                /\ get_cached_data(a, cache) = Dict(results[p][a])
                /\ get_cached_data(a, cache).v.last_update = results[p][a].last_update
                /\ get_cached_data(a, cache).v.data_source = results[p][a].data_source

\* a stale entry of the cache has been replaced by the record of a live fetch
C9_Witness ==
    \E p \in Procs :
        /\ WrittenBack(p)
        /\ calls = 2
        /\ results[p][IoAsset(p)].data_source = "live_yfinance_last_resort"
        /\ cache[IoAsset(p)].text.doc.v.last_update.t = now
        /\ now > T0

\* the figures of a record that the calculator derives from the prices
Figures(rec) ==
    <<rec.historical_returns, rec.risk_metrics, rec.current_stats.sma_50,
      rec.current_stats.sma_200, rec.current_stats.avg_annual_return>>

Extrapolates(prices, h) ==
    /\ Numeric(prices)
    /\ Len(prices.v) >= 10
    /\ Len(prices.v) < Max2(h + 1, 30)

\* (total return over the span / (length - 1)) * h * d
Estimate(prices, h) ==
    LET total == RSub(Rat(prices.v[Len(prices.v)], prices.v[1]), RInt(1))
        d     == IF h > 30 THEN RMin(RInt(1), Rat(30, h)) ELSE RInt(1)
    IN  RMul(RMul(RDiv(total, RInt(Len(prices.v) - 1)), RInt(h)), d)

\* x brought into [-80%, +200%]
Clamped(x) ==
    IF RLess(x, Rat(-80, 100)) THEN Rat(-80, 100)
    ELSE IF RLess(RInt(2), x) THEN RInt(2) ELSE x

\* C11: for a numeric series of at least 10 points and every horizon h with
\* fewer than max(h + 1, 30) points, the reported return is the estimate
\* (total return / (length - 1)) * h * d, d = min(1, 30/h) for h > 30 and 1
\* otherwise, brought into [-80%, +200%] and formatted with one decimal
C11_ExtrapolationBounds ==
    \A i \in DOMAIN out : \A key \in DOMAIN HorizonDays :
        (out[i].v.data_source # "complete_defaults"
            /\ Extrapolates(series, HorizonDays[key])) =>
            LET x == Clamped(Estimate(series, HorizonDays[key]))
            IN  /\ ~RLess(x, Rat(-80, 100)) /\ ~RLess(RInt(2), x)
                /\ out[i].v.historical_returns[key] = FmtPct(x)

\* a short series that tripled has been computed: the one-year estimate is
\* above the upper bound and is reported as 200.0%
C11_Witness ==
    /\ Len(out) >= 1
    /\ Extrapolates(series, 252)
    /\ RLess(RInt(2), Estimate(series, 252))
    /\ out[1].v.historical_returns["1_year"] = "200.0%"

\* the sum of the prices at the positions win, each distinct price times its count
RECURSIVE TotalOf(_, _, _)
TotalOf(vals, v, win) ==
    IF vals = {} THEN 0
    ELSE LET x == CHOOSE u \in vals : TRUE
         IN  x * Cardinality({i \in win : v[i] = x}) + TotalOf(vals \ {x}, v, win)

\* the mean of the last w prices of the series
WindowMean(prices, w) ==
    LET win == (Len(prices.v) - w + 1)..Len(prices.v)
    IN  Rat(TotalOf({prices.v[i] : i \in win}, prices.v, win), w)

\* the moving average a record must report for the window w
ExpectedSma(prices, w) ==
    IF Len(prices.v) < w THEN RInt(prices.v[Len(prices.v)])
    ELSE WindowMean(prices, w)

\* the calculator was given a series whose latest price converts to a float
Computable(prices) == Len(prices.v) > 0 /\ ~prices.junk_last

\* C12: for a non-empty series shorter than the window sma_50 (sma_200) is the
\* latest price, for a numeric series at least as long as the window it is the
\* mean of the last 50 (200) prices, and a series of length 1 gives
\* sma_50 = current_price and the fallback max_drawdown, computed without error
C12_ShortSeries ==
    \A i \in DOMAIN out :
        (Computable(series) /\ (Numeric(series) \/ Len(series.v) < 50)) =>
            LET rec == out[i].v
            IN  /\ rec.data_source # "complete_defaults"
                /\ rec.current_stats.sma_50 = ExpectedSma(series, 50)
                /\ rec.current_stats.sma_200 = ExpectedSma(series, 200)
                /\ Len(series.v) = 1 =>
                      /\ rec.current_stats.sma_50 = rec.current_price
                      /\ rec.risk_metrics.max_drawdown = "-22.0%"

\* a series of length 1 has been computed
C12_Witness ==
    /\ Len(out) >= 1
    /\ Len(series.v) = 1
    /\ out[1].v.current_stats.sma_50 = out[1].v.current_price
    /\ out[1].v.data_quality.data_points = 1

\* C13 (as stated): a tier in which the computation of the metrics raised is
\* treated as unavailable, so a record assigned by the primary-dataset tier or
\* by the live-fetch tier is never the record of the defaults tier
C13_ErrorAdvances ==
    \A p \in Procs : \A a \in Assets :
        (InCall(p) /\ a \in DOMAIN tier[p] /\ tier[p][a] \in {"csv", "live"}) =>
            results[p][a].data_source # "complete_defaults"

\* the cache file holds a record whose last_update is written with the suffix tz
Qualified(file, tz) ==
    /\ file.exists /\ file.text.complete /\ file.text.doc.k = "dict"
    /\ "last_update" \in DOMAIN file.text.doc.v
    /\ file.text.doc.v.last_update.tz = tz

\* C14 (as stated): a cache entry that the resolver has read and whose
\* timestamp denotes an instant less than 24 hours ago is the source of the
\* record, whether the timestamp is unqualified, ends in Z, or carries a positive
\* or a negative offset
C14_FormatTolerant ==
    \A p \in Procs : \A tz \in Suffixes :
        (/\ CacheJustRead(p)
         /\ Qualified(cache[IoAsset(p)], tz)
         /\ Age(cache[IoAsset(p)]) < 24 * 3600) =>
            /\ IoAsset(p) \in DOMAIN tier[p]
            /\ tier[p][IoAsset(p)] = "cache"

\* the resolver is in the write-back of the live record of asset a
WritingBack(p, a) ==
    /\ pc[p] \in {"write_open", "write_dump"}
    /\ asset_of(p) = a
    /\ a \in DOMAIN tier[p] /\ tier[p][a] = "live"

\* the step assigns the record of asset a from a tier other than the live fetch
AssignsElsewhere(p, a) ==
    /\ a \in DOMAIN tier'[p]
    /\ a \notin DOMAIN tier[p]
    /\ tier'[p][a] \in {"csv", "cache", "defaults"}

\* C15: a step changes the cache entry of an asset only during the write-back
\* of the live record of that asset; a step that resolves an asset through the
\* primary dataset, the cache or the defaults changes no entry; and no step
\* removes an entry that exists
C15_CacheFrame ==
    [][ /\ \A a \in Assets :
              cache'[a] # cache[a] => \E p \in Procs : WritingBack(p, a)
        /\ \A a \in Assets : cache[a].exists => cache'[a].exists
        /\ \A p \in Procs : \A a \in Assets :
              AssignsElsewhere(p, a) => cache' = cache ]_vars

\* a stale entry was read and skipped, resolution of the asset ended in the
\* defaults, and the entry is still there
C15_Witness ==
    \E p \in Procs : \E a \in Assets :
        /\ InCall(p)
        /\ a \in DOMAIN tier[p] /\ tier[p][a] = "defaults"
        /\ \E i \in 1..Len(io[p]) : io[p][i].op = "cache_read" /\ io[p][i].arg = a
        /\ Timestamped(cache[a])
        /\ Age(cache[a]) >= 24 * 3600

\* the step is the failure of the write-back of process p: open() raised
WriteFails(p) ==
    /\ pc[p] = "write_open"
    /\ Len(io'[p]) = Len(io[p]) + 1
    /\ io'[p][Len(io'[p])] = Op("cache_open", asset_of(p), "raise")

\* C16: when the write-back of a live record fails, the record stays assigned
\* to the asset, no exception leaves the call, and the loop goes on to the next
\* asset or returns; a call that has returned has resolved all the assets
C16_WriteFailureNotFatal ==
    /\ [](\A p \in Procs : pc[p] = "done" => DOMAIN results[p] = Assets /\ ~raised[p])
    /\ [][ \A p \in Procs :
             WriteFails(p) =>
                 /\ results'[p] = results[p]
                 /\ asset_of(p) \in DOMAIN results[p]
                 /\ Dict(results[p][asset_of(p)]) = live_data[p]
                 /\ tier[p][asset_of(p)] = "live"
                 /\ ~raised'[p]
                 /\ IF idx[p] = Len(assets)
                    THEN pc'[p] = "done"
                    ELSE pc'[p] = "csv" /\ idx'[p] = idx[p] + 1 ]_vars

\* a call has returned the record of a live fetch for an asset whose cache file
\* could not be created
C16_Witness ==
    \E p \in Procs : \E a \in Assets :
        /\ pc[p] = "done"
        /\ DOMAIN results[p] = Assets
        /\ tier[p][a] = "live"
        /\ results[p][a].data_source = "live_yfinance_last_resort"
        /\ cache[a] = NoFile
        /\ a # assets[Len(assets)]

\* the window requests of the current iteration, in the order they were made
Requests(p) == SelectSeq(io[p], LAMBDA e : e.op = "history")

\* the live fetch of the current iteration has returned a record
LiveAssigned(p) == pc[p] \in {"write_open", "write_dump"}

\* C17 (as stated): the windows are requested in the order 10y, 5y, 2y, 1y and
\* no window is requested after one that returned more than 50 points; a live
\* record is computed only from the series of a window that returned more than
\* 50 points, which is the last window requested
C17_NonTrivialOnly ==
    \A p \in Procs :
        /\ InCall(p) =>
              /\ Len(Requests(p)) <= Len(periods)
              /\ \A i \in 1..Len(Requests(p)) :
                    /\ Requests(p)[i].arg = periods[i]
                    /\ Requests(p)[i].out = "series" => i = Len(Requests(p))
        /\ LiveAssigned(p) =>
              /\ NonTrivial(hist[p])
              /\ Requests(p)[Len(Requests(p))].out = "series"

\* how many operations named name the current iteration has made
Count(p, name) == Len(SelectSeq(io[p], LAMBDA e : e.op = name))

\* calculate_all_metrics has been entered and has not returned
Running(p) == pc[p] \notin {"idle", "done"}

\* C18: in the resolution of one asset each window is requested at most once, so
\* at most four requests are made, the cache file is read at most once and
\* written at most once; and every call of calculate_all_metrics returns, with
\* all four assets processed
C18_BoundedWork ==
    /\ [](\A p \in Procs :
             /\ Len(Requests(p)) <= 4
             /\ \A i, j \in 1..Len(Requests(p)) :
                   Requests(p)[i].arg = Requests(p)[j].arg => i = j
             /\ Count(p, "cache_read") <= 1
             /\ Count(p, "cache_open") <= 1
             /\ Count(p, "cache_dump") <= 1)
    /\ \A p \in Procs :
          Running(p) ~> (pc[p] = "done" /\ DOMAIN results[p] = Assets)

\* an iteration that made all four window requests, after reading the cache
C18_Witness ==
    \E p \in Procs :
        /\ Running(p)
        /\ Len(Requests(p)) = 4
        /\ Count(p, "cache_read") = 1

\* the last price over the price h positions before it
Growth(prices, h) == Rat(prices.v[Len(prices.v)], prices.v[Len(prices.v) - h])

\* C19: for a numeric series of n prices and a horizon of h days the reported
\* return is decided by n and h alone: with n >= max(h + 1, 30) it is the
\* growth from the price h positions before the last one, as it is when
\* h <= 252 and as its (h / 252)-th root when h > 252; otherwise with n >= 10 it
\* is the bounded extrapolation; otherwise it is the fallback of the horizon
C19_BranchSelection ==
    \A i \in DOMAIN out :
        Numeric(series) =>
            LET n     == Len(series.v)
                h     == HorizonDays[out[i].key]
                value == out[i].value
            IN  IF n >= Max2(h + 1, 30)
                THEN IF h <= 252
                     THEN value = FmtPct(RSub(Growth(series, h), RInt(1)))
                     ELSE \E b \in RootBases :
                             /\ RPow(b, h \div 252) = Growth(series, h)
                             /\ value = FmtPct(RSub(b, RInt(1)))
                ELSE IF n >= 10
                THEN value = FmtPct(Clamped(Estimate(series, h)))
                ELSE value = ReturnFallback[out[i].key]

\* a series of more than five years that grew 32-fold has been computed for
\* the five-year horizon: 100.0% a year
C19_Witness ==
    /\ Len(out) >= 1
    /\ Numeric(series)
    /\ Len(series.v) >= 252 * 5 + 1
    /\ out[1].key = "5_years_avg"
    /\ out[1].value = "100.0%"

\* every price of the series is the same
Constant(prices) == \A i \in 1..Len(prices.v) : prices.v[i] = prices.v[1]

\* C20: in a record computed from a series of n prices (n - 1 daily returns),
\* volatility, VaR and max drawdown are their fallbacks when n < 30, the Sharpe
\* ratio is its fallback when n < 100 and when the daily returns do not vary,
\* and none of the four is reported as missing
C20_RiskGating ==
    \A i \in DOMAIN out :
        out[i].v.data_source # "complete_defaults" =>
            LET n  == Len(series.v)
                rm == out[i].v.risk_metrics
            IN  /\ (n < 30 \/ n - 1 < 20) =>
                      /\ rm.volatility = "18.0%"
                      /\ rm.var_95 = "-2.3%"
                /\ n < 30 => rm.max_drawdown = "-22.0%"
                /\ (n < 100 \/ n - 1 < 50) => rm.sharpe_ratio = "0.85"
                /\ (Numeric(series) /\ Constant(series)) => rm.sharpe_ratio = "0.85"
                /\ \A m \in DOMAIN rm : rm[m] # NA

\* a constant series long enough for the Sharpe ratio has been computed: the
\* volatility is reported as 0.0% and the Sharpe ratio is the fallback
C20_Witness ==
    /\ Len(out) >= 1
    /\ Len(series.v) >= 100
    /\ Numeric(series) /\ Constant(series)
    /\ out[1].v.risk_metrics.volatility = "0.0%"
    /\ out[1].v.risk_metrics.sharpe_ratio = "0.85"

\* the return over `days` trading days can be computed from the series itself
Covers(prices, days) == Numeric(prices) /\ Len(prices.v) >= days + 1

\* C21: in a record computed from a series, current_stats.avg_annual_return is the
\* 5-year return when the series covers five years, otherwise the 1-year return
\* when the series covers one year, otherwise the fixed fallback 10.0%
C21_BestAvailableReturn ==
    \A i \in DOMAIN out :
        out[i].v.data_source # "complete_defaults" =>
            LET hr == out[i].v.historical_returns
            IN  out[i].v.current_stats.avg_annual_return =
                    IF Covers(series, HorizonDays["5_years_avg"]) THEN hr["5_years_avg"]
                    ELSE IF Covers(series, HorizonDays["1_year"]) THEN hr["1_year"]
                    ELSE "10.0%"

\* call q is between the open and the close of its write-back for asset a
Writing(q, a) == pc[q] = "write_dump" /\ asset_of(q) = a

\* call p reads the cache file of its asset in this step
ReadsCache(p) == pc[p] = "cache" /\ pc'[p] # "cache"

\* C22: a resolver that reads the cache entry of an asset while another call's
\* write-back of that asset is under way finds a complete entry (the previous one
\* or the new one), never a file that is empty or holds half a record
C22_AtomicWrite ==
    [][\A p \in DOMAIN pc : \A q \in DOMAIN pc \ {p} :
          (ReadsCache(p) /\ Writing(q, asset_of(p))) =>
              (cache[asset_of(p)].exists /\ cache[asset_of(p)].text.complete)]_vars

\* call p completes the write-back of its asset in this step
CompletesWrite(p) == pc[p] = "write_dump" /\ pc'[p] # "write_dump"

\* C23: the cache has one entry per asset; when a write-back completes, the entry
\* of its asset is the record it wrote, whatever the interleaving with another
\* call that live-fetches the same asset; and a step of the resolution of one
\* asset leaves the entries of the other assets as they are
C23_LastWriteWins ==
    /\ [](DOMAIN cache = Assets)
    /\ [][\A p \in DOMAIN pc :
             /\ CompletesWrite(p) =>
                    cache'[asset_of(p)] = File(json_dump(live_data[p]))
             /\ \A a \in Assets :
                    cache'[a] # cache[a] => \E q \in DOMAIN pc : asset_of(q) = a]_vars

\* the cache file exists and cannot be used: it cannot be opened, its text is no
\* JSON document, the document is no record, or the record has no last_update or
\* one that is no timestamp
Unusable(file) ==
    /\ file.exists
    /\ \/ ~file.text.complete
       \/ file.text.doc.k # "dict"
       \/ "last_update" \notin DOMAIN file.text.doc.v
       \/ file.text.doc.v.last_update.tz = "?"

\* no window requested in the iteration has returned rows
NoHistory(l) ==
    \A i \in DOMAIN l : l[i].op = "history" => l[i].out \in {"raise", "empty"}

\* C24: reading a cache file that cannot be used leaves the call where an absent
\* file leaves it: at the live fetch, with no exception, no record assigned and
\* no counter changed; the entry is never served, and when the live fetch yields
\* no history either the asset gets its defaults record
C24_ReadFailureIsAbsence ==
    /\ [][\A p \in Procs :
             (pc[p] = "cache" /\ pc'[p] # "cache" /\ Unusable(cache[asset_of(p)])) =>
                 /\ pc'[p] = "live"
                 /\ raised' = raised /\ results' = results
                 /\ hits' = hits /\ tier' = tier /\ cache' = cache]_vars
    /\ [](\A p \in Procs :
             (/\ io[p] # <<>> /\ InCall(p)
              /\ Unusable(cache[IoAsset(p)])
              /\ IoAsset(p) \in DOMAIN tier[p]) =>
                 /\ ~raised[p]
                 /\ tier[p][IoAsset(p)] \in {"live", "defaults"}
                 /\ NoHistory(io[p]) =>
                       /\ tier[p][IoAsset(p)] = "defaults"
                       /\ results[p][IoAsset(p)] =
                              generate_complete_default_metrics(IoAsset(p), now))

\* a call has returned whose iteration for the last asset found a cache file
\* that cannot be opened or holds a record without a usable last_update, asked
\* the provider in vain and assigned the defaults record
C24_Witness ==
    \E p \in Procs :
        /\ Returned(p)
        /\ Len(io[p]) > 2
        /\ NoHistory(io[p])
        /\ cache[IoAsset(p)].exists
        /\ \/ cache[IoAsset(p)].text = Denied
           \/ /\ cache[IoAsset(p)].text.complete
              /\ cache[IoAsset(p)].text.doc.k = "dict"
              /\ Unusable(cache[IoAsset(p)])
        /\ tier[p][IoAsset(p)] = "defaults"

\* the cache file holds the static defaults record
HoldsDefaults(file) ==
    /\ file.exists /\ file.text.complete /\ file.text.doc.k = "dict"
    /\ "data_source" \in DOMAIN file.text.doc.v
    /\ file.text.doc.v.data_source = "complete_defaults"

\* C25 (as stated): no cache file ever holds the static defaults record
C25_NoDefaultsInCache == \A a \in Assets : ~HoldsDefaults(cache[a])

\* the assets whose returned record carries one of the tags
Tagged(p, tags) == {a \in DOMAIN results[p] : results[p][a].data_source \in tags}

\* the assets whose record was assigned by the branch of a tier
AssignedBy(p, branch) == {a \in DOMAIN tier[p] : tier[p][a] = branch}

LiveTags == {"live_yfinance", "live_yfinance_last_resort"}

WrittenEarlier(a) ==
    /\ ResolverWritten(cache[a])
    /\ Timestamped(cache[a])
    /\ 0 < Age(cache[a]) /\ Age(cache[a]) < 24 * 3600

\* C27: once a live fetch has been written back for an asset without a
\* primary-dataset series, a resolution of the asset in a later call within 24
\* hours assigns the stored record, with every metric value as stored, from the
\* cache branch, and requests no window from the provider
C27_CacheReuse ==
    \A p \in Procs : \A a \in Assets :
        (/\ InCall(p) /\ a \in DOMAIN tier[p]
         /\ ~HoldsSeries(a)
         /\ WrittenEarlier(a)) =>
            /\ tier[p][a] = "cache"
            /\ results[p][a] = Stored(a)
            /\ Figures(results[p][a]) = Figures(Stored(a))
            /\ (io[p] # <<>> /\ IoAsset(p) = a) =>
                   \A i \in DOMAIN io[p] : io[p][i].op # "history"

\* the first call wrote the record of a live fetch into the cache, and the
\* second call, a minute later, has returned it from the cache
C27_Witness ==
    \E p \in Procs : \E a \in Assets :
        /\ Returned(p)
        /\ calls = 2
        /\ ResolverWritten(cache[a])
        /\ Stored(a).last_update.t = T0
        /\ now = T0 + 60
        /\ tier[p][a] = "cache"
        /\ hits[p].live_fetches = 0
        /\ results[p][a] = Stored(a)

\* C28: the mapping that calculate_all_metrics returns has exactly the keys
\* Equities, Gold, Bitcoin and REITs, whatever the portfolios argument was (the
\* caller's two portfolios, portfolios without weights, an empty mapping,
\* portfolios that leave assets out and name an unknown one), and the record under
\* each key names that key as its asset_name
C28_FixedKeys ==
    \A p \in DOMAIN pc :
        /\ DOMAIN results[p] \subseteq {"Equities", "Gold", "Bitcoin", "REITs"}
        /\ \A a \in DOMAIN results[p] : results[p][a].asset_name = a
        /\ Returned(p) => DOMAIN results[p] = {"Equities", "Gold", "Bitcoin", "REITs"}

\* two calls have returned, one entered with an empty mapping and one with
\* portfolios that hold Gold and the unknown Oil only: both mappings have the
\* four keys and no key Oil
C28_Witness ==
    /\ \A p \in DOMAIN pc : Returned(p)
    /\ \E p, q \in DOMAIN pc :
          /\ portfolios[p] = EmptyDict
          /\ DOMAIN portfolios[q] = {"current", "optimized"}
          /\ DOMAIN portfolios[q].current = {"Gold", "Oil"}
          /\ DOMAIN results[p] = DOMAIN results[q]
          /\ Cardinality(DOMAIN results[q]) = 4
          /\ "Oil" \notin DOMAIN results[q]

\* x * 100 lies half way between two values of one decimal
Halfway(x) == 2 * ((Abs(x.n) * 1000) % x.d) = x.d

\* what f"{x * 100:.1f}%" can show of x when each operation may round: the
\* nearest value of one decimal, and either neighbour where x lies half way
Displayable(x) ==
    LET tenths == IF Halfway(x)
                  THEN {(Abs(x.n) * 1000) \div x.d, (Abs(x.n) * 1000) \div x.d + 1}
                  ELSE {RoundHalfEven(Abs(x.n) * 1000, x.d)}
    IN  {(IF x.n < 0 THEN "-" ELSE "") \o ToString(m \div 10) \o "." \o ToString(m % 10)
         \o "%" : m \in tenths}

C30_FutureIsFresh ==
    \A p \in Procs :
        (/\ CacheJustRead(p)
         /\ Timestamped(cache[IoAsset(p)])
         /\ Age(cache[IoAsset(p)]) < 0) =>
            /\ IoAsset(p) \in DOMAIN tier[p]
            /\ tier[p][IoAsset(p)] = "cache"
            /\ results[p][IoAsset(p)].last_update = Stored(IoAsset(p)).last_update
            /\ \A i \in DOMAIN io[p] : io[p][i].op # "history"

\* the second call, a minute after the first, has returned a record from a
\* cache entry that is dated a day ahead of the start
C30_Witness ==
    \E p \in Procs : \E a \in Assets :
        /\ Returned(p)
        /\ calls = 2
        /\ now = T0 + 60
        /\ Timestamped(cache[a])
        /\ Stored(a).last_update.t = T0 + Day
        /\ tier[p][a] = "cache"
        /\ results[p][a].last_update.t > now
        /\ hits[p].live_fetches = 0

=============================================================================
